---- MODULE Spec2Model ----
(***************************************************************************)
(* Insight Stream: transcript cache, request orchestration over the cache  *)
(* and the AI gateway, and the dashboard's client-side callers.            *)
(*                                                                         *)
(* Time is counted in hours.  The clock advances in steps of half a TTL,   *)
(* so that "exactly TTL after the put" and "more than TTL after the put"   *)
(* are both reachable instants.                                            *)
(***************************************************************************)
EXTENDS Integers, Sequences, FiniteSets, TLC

VARIABLES
    now,      \* the clock read by the cache (hours)
    cache,    \* TranscriptCache: contentId -> entry | NoEntry
    puts,     \* history: per contentId, the puts issued so far, in order
    got,      \* the cache read made by the latest step, or NoGet
    reqs,     \* the server's in-flight requests: slot -> request record
    panel,    \* TranscriptPanel: its React state and its pending calls
    chat,     \* ChatPanel: its React state and its pending call
    job,      \* one summarize run, from the client call to the response
    indexPage,\* Index page: its React state, its handlers in flight, its timers
    timeUtils,\* timeUtils: the latest conversion and its round trip
    dash,\* Dashboard with its SummaryPanel: videoData and the re-summarize calls
    admin \* AdminSettings: its React state, localStorage, and its pending loads

vars == <<now, cache, puts, got, reqs, panel, chat, job, indexPage, timeUtils, dash, admin>>
server == <<now, cache, puts, got, reqs>>
ui == <<panel, chat, job, indexPage, timeUtils, dash, admin>>

----------------------------------------------------------------------------
(* Bounds and constants *)

MaxTicks == 5
MaxPuts == 3
MaxSummarize == 2

TTL == 24
HalfDay == TTL \div 2
MaxTime == MaxTicks * HalfDay

ContentIds == {"v1", "v2"}
Texts == {"X", "Y"}

ServedIds == {"v1"}
Reqs == {"r1", "r2"}
MaxSeg == 2
MaxBatches == 2
MaxSegClicks == 3
MaxAsk == 2

Absent == "<absent>"
NoEntry == [absent |-> TRUE]
NoGet == [none |-> TRUE]
NoVal == [none |-> TRUE]

----------------------------------------------------------------------------
(* TranscriptCache *)

\* A buggy put that keeps the stamps of the entry it overwrites.
CachePut_KeepStamp(c, id, text, t) ==
    IF c[id] = NoEntry
    THEN [c EXCEPT ![id] = [rawText |-> text, createdAt |-> t, expiresAt |-> t + TTL]]
    ELSE [c EXCEPT ![id] = [rawText |-> text, createdAt |-> c[id].createdAt,
                            expiresAt |-> c[id].expiresAt]]

\* set(video_id, transcript): store or overwrite, stamping createdAt and expiresAt.
CachePut(c, id, text, t) ==
    [c EXCEPT ![id] = [rawText |-> text, createdAt |-> t, expiresAt |-> t + TTL]]

\* A buggy lookup that never checks expiry.
CacheEntryAt_NoExpiry(c, id, t) == c[id]

\* A buggy lookup that treats the instant expiresAt itself as expired.
CacheEntryAt_StrictlyBefore(c, id, t) ==
    IF c[id] # NoEntry /\ t < c[id].expiresAt THEN c[id] ELSE NoEntry

\* The entry a read at time t sees: the stored entry while t <= expiresAt.
CacheEntryAt(c, id, t) ==
    IF c[id] # NoEntry /\ t <= c[id].expiresAt THEN c[id] ELSE NoEntry

\* get(video_id): the text, or Absent (None) when missing or expired.
CacheGet(c, id, t) ==
    LET e == CacheEntryAt(c, id, t)
    IN  IF e = NoEntry THEN Absent ELSE e.rawText

\* A sweep that already drops an entry at the instant it expires.
CacheSweep_AtExpiry(c, t) ==
    [id \in ContentIds |->
        IF c[id] # NoEntry /\ t >= c[id].expiresAt THEN NoEntry ELSE c[id]]

\* clear_expired(): drop every entry with t > expiresAt.
CacheSweep(c, t) ==
    [id \in ContentIds |->
        IF c[id] # NoEntry /\ t > c[id].expiresAt THEN NoEntry ELSE c[id]]

EmptyCache == [id \in ContentIds |-> NoEntry]

----------------------------------------------------------------------------
(* History of puts *)

TotalPuts == Len(puts["v1"]) + Len(puts["v2"])
HasPut(id) == Len(puts[id]) > 0
LastPut(id) == puts[id][Len(puts[id])]
PrevPut(id) == puts[id][Len(puts[id]) - 1]
LogPut(id, text, t) == [puts EXCEPT ![id] = Append(@, [text |-> text, at |-> t])]

----------------------------------------------------------------------------
(* Responses of the HTTP API and what the client wrappers make of them *)

MessageOf(code) == <<"message", code>>

\* Error response: {"detail": {"error", "message", "suggestion"}} with a non-2xx status.
ErrResponse(code) ==
    [ok |-> FALSE, body |-> NoVal,
     detail |-> [error |-> code, message |-> MessageOf(code)]]

OkResponse(body) == [ok |-> TRUE, body |-> body, detail |-> NoVal]

NoOutcome == [status |-> "none", data |-> NoVal, message |-> NoVal]

\* A buggy wrapper that ignores response.ok and hands the parsed body on.
ClientResult_IgnoreStatus(resp) ==
    [status |-> "ok", data |-> resp.body, message |-> NoVal]

\* summarizeVideo / customSummarize / chatWithVideo / translateSegment /
\* translateBatch: a non-ok response becomes a thrown Error carrying
\* detail.message; an ok response is returned as parsed.
ClientResult(resp) ==
    IF resp.ok
    THEN [status |-> "ok", data |-> resp.body, message |-> NoVal]
    ELSE [status |-> "error", data |-> NoVal, message |-> resp.detail.message]

----------------------------------------------------------------------------
(* Server-side request handling *)

IdleReq ==
    [kind |-> "idle", id |-> "-", pc |-> "idle", fromReq |-> FALSE, n |-> 0,
     live |-> FALSE, transcript |-> Absent, seen |-> NoEntry,
     ov |-> "idle", dt |-> "idle", calls |-> 0, outcome |-> NoOutcome]

\* Python truthiness of an Optional[str].
Truthy(t) == t # Absent /\ t # ""

\* History view of "a transcript is stored and not expired" at time t.
LiveAt(id, t) == HasPut(id) /\ t <= LastPut(id).at + TTL

Generated(which, transcript) == [text |-> <<which, transcript>>]
Failure(code) == [error |-> code]

\* A buggy lookup that goes on with an empty transcript on a cache miss.
ResummarizeLookup_EmptyFallback(reqT, c, id, t) ==
    IF Truthy(reqT)
    THEN [found |-> TRUE, transcript |-> reqT, seen |-> NoEntry]
    ELSE [found |-> TRUE,
          transcript |-> IF Truthy(CacheGet(c, id, t)) THEN CacheGet(c, id, t) ELSE "",
          seen |-> CacheEntryAt(c, id, t)]

\* custom summarize endpoint: transcript from the request, else from the cache;
\* "if not transcript" raises 404 transcript_not_found.
ResummarizeLookup(reqT, c, id, t) ==
    IF Truthy(reqT)
    THEN [found |-> TRUE, transcript |-> reqT, seen |-> NoEntry]
    ELSE IF Truthy(CacheGet(c, id, t))
         THEN [found |-> TRUE, transcript |-> CacheGet(c, id, t),
               seen |-> CacheEntryAt(c, id, t)]
         ELSE [found |-> FALSE, transcript |-> Absent, seen |-> NoEntry]

\* A buggy lookup that answers from an empty transcript on a cache miss.
CachedLookup_EmptyFallback(c, id, t) ==
    IF Truthy(CacheGet(c, id, t))
    THEN [found |-> TRUE, transcript |-> CacheGet(c, id, t),
          seen |-> CacheEntryAt(c, id, t)]
    ELSE [found |-> TRUE, transcript |-> "", seen |-> NoEntry]

\* chat and translate endpoints: the transcript must come from the cache.
CachedLookup(c, id, t) ==
    IF Truthy(CacheGet(c, id, t))
    THEN [found |-> TRUE, transcript |-> CacheGet(c, id, t),
          seen |-> CacheEntryAt(c, id, t)]
    ELSE [found |-> FALSE, transcript |-> Absent, seen |-> NoEntry]

Part(state, which, transcript) ==
    IF state = "ok" THEN Generated(which, transcript) ELSE Failure("generation_failed")

\* A buggy report that turns any failed call into a plain error response.
DualResponse_AllOrNothing(ov, dt, transcript) ==
    IF ov = "ok" /\ dt = "ok"
    THEN OkResponse([summary_overview |-> Part(ov, "overview", transcript),
                     summary_detail |-> Part(dt, "detail", transcript)])
    ELSE ErrResponse("generation_failed")

\* The report of the overview/detail pair: each call's outcome is reported;
\* only when nothing was generated is the whole request an error.
DualResponse(ov, dt, transcript) ==
    IF ov = "failed" /\ dt = "failed"
    THEN ErrResponse("generation_failed")
    ELSE OkResponse([summary_overview |-> Part(ov, "overview", transcript),
                     summary_detail |-> Part(dt, "detail", transcript)])

\* The backend's answer to a batch of n lines: m entries, in input order.
TranslationOf(j) == <<"ko", j>>
LLMBatch(m) == [j \in 1..m |-> TranslationOf(j)]

\* A buggy check that hands on whatever was parsed.
TranslateBatchResponse_Unchecked(n, out) == OkResponse([translations |-> out])

\* translate batch endpoint: the parsed entries must be exactly one per segment.
TranslateBatchResponse(n, out) ==
    IF Len(out) = n
    THEN OkResponse([translations |-> out])
    ELSE ErrResponse("translation_shape_mismatch")

Finish(q, resp) == [q EXCEPT !.pc = "done", !.outcome = ClientResult(resp)]

----------------------------------------------------------------------------
(* TranscriptPanel: client state *)

EmptyMap == [i \in {} |-> NoVal]
MapSet(m, k, v) == [x \in DOMAIN m \cup {k} |-> IF x = k THEN v ELSE m[x]]
MapSize(m) == Cardinality(DOMAIN m)

\* result.translations.forEach((translation, index) => newTranslations.set(index, translation))
MapFromList(list) == [i \in 0..(Len(list) - 1) |-> list[i + 1]]

\* The panel as mounted on a transcript of n lines.
NewPanel(n) ==
    [lines |-> n, showTranslation |-> FALSE, segmentTranslations |-> EmptyMap,
     translatingSegments |-> {}, isTranslatingFull |-> FALSE,
     toast |-> "none", batches |-> <<>>,
     segCalls |-> [i \in 0..(n - 1) |-> 0], fullCalls |-> 0, segClicks |-> 0]

\* A full-translate click that only toggles once every line is translated.
TogglesOnly_WhenComplete(p) == MapSize(p.segmentTranslations) = p.lines

\* handleTranslateFull returns after toggling showTranslation: every line is
\* translated, or some are.
TogglesOnly(p) ==
    \/ MapSize(p.segmentTranslations) = p.lines
    \/ MapSize(p.segmentTranslations) > 0

\* A finally block that leaves the marker in place.
WithoutSegment_Kept(set, i) == set

\* newSet.delete(index)
WithoutSegment(set, i) == set \ {i}

\* A click that asks for segment i without looking at what is in progress.
IssuesTranslateSegment_Unchecked(p, i) ==
    /\ ~p.isTranslatingFull
    /\ i \notin DOMAIN p.segmentTranslations

\* A click on segment i's button gets as far as the translateSegment call: the
\* button is enabled, and handleTranslateSegment takes neither early return.
IssuesTranslateSegment(p, i) ==
    /\ ~(i \in p.translatingSegments \/ p.isTranslatingFull)
    /\ i \notin p.translatingSegments
    /\ i \notin DOMAIN p.segmentTranslations

\* What the backend answers to a translate call of the given fate.
BackendTranslateOne(fate, index) ==
    CASE fate = "miss"   -> ErrResponse("transcript_not_found")
      [] fate = "failed" -> ErrResponse("generation_failed")
      [] OTHER           -> OkResponse([translation |-> TranslationOf(index + 1)])

BackendTranslateBatch(fate, n, m) ==
    CASE fate = "miss"   -> ErrResponse("transcript_not_found")
      [] fate = "failed" -> ErrResponse("generation_failed")
      [] OTHER           -> TranslateBatchResponse(n, LLMBatch(m))

Fates == {"miss", "failed", "returned"}

----------------------------------------------------------------------------
(* Prompt composition.  A text is a sequence of tokens; "{role}" and
   "{transcript}" are the two replacement fields of the templates. *)

BASE_OVERVIEW ==
    <<"[ROLE]", "{role}", "[INPUT]", "[OBJECTIVE]", "overview-objective",
      "==========", "[TARGET SCRIPT]", "{transcript}">>

BASE_DETAIL_DIALOGUE ==
    <<"[ROLE]", "{role}", "[INPUT]", "[OBJECTIVE]", "dialogue-requirements",
      "==========", "[TARGET SCRIPT]", "{transcript}">>

BASE_DETAIL_PRESENTATION ==
    <<"[ROLE]", "{role}", "[INPUT]", "[OBJECTIVE]", "presentation-requirements",
      "==========", "[TARGET SCRIPT]", "{transcript}">>

\* self.roles: the registered topics and their role texts.
Roles ==
    [general  |-> <<"role-general">>,
     default  |-> <<"role-default">>,
     tech     |-> <<"role-tech">>,
     business |-> <<"role-business">>,
     ai       |-> <<"role-ai">>,
     economy  |-> <<"role-economy">>,
     politics |-> <<"role-politics">>,
     daily    |-> <<"role-daily">>]

\* A lookup that falls back to the "default" entry.
RoleFor_FallBackToDefault(topic) ==
    IF topic \in DOMAIN Roles THEN Roles[topic] ELSE Roles["default"]

\* self.roles.get(topic, self.roles["general"])
RoleFor(topic) ==
    IF topic \in DOMAIN Roles THEN Roles[topic] ELSE Roles["general"]

\* A selection that takes the presentation template for everything but "dialogue".
TemplateFor_PresentationUnlessDialogue(format_type, prompt_type) ==
    IF prompt_type = "overview" THEN BASE_OVERVIEW
    ELSE IF format_type = "dialogue" THEN BASE_DETAIL_DIALOGUE
    ELSE BASE_DETAIL_PRESENTATION

\* create_prompt: the template chosen by prompt_type and format_type.
TemplateFor(format_type, prompt_type) ==
    IF prompt_type = "overview" THEN BASE_OVERVIEW
    ELSE IF format_type = "presentation" THEN BASE_DETAIL_PRESENTATION
    ELSE BASE_DETAIL_DIALOGUE

\* A formatting that fills in the role only.
RECURSIVE Format_RoleOnly(_, _, _)
Format_RoleOnly(template, role, transcript) ==
    IF template = <<>> THEN <<>>
    ELSE (IF Head(template) = "{role}" THEN role ELSE <<Head(template)>>)
             \o Format_RoleOnly(Tail(template), role, transcript)

\* str.format(role=..., transcript=...): one pass over the template; a
\* replacement field is replaced by its value, and the value is not scanned.
RECURSIVE Format(_, _, _)
Format(template, role, transcript) ==
    IF template = <<>> THEN <<>>
    ELSE LET h == Head(template)
             out == IF h = "{role}" THEN role
                    ELSE IF h = "{transcript}" THEN transcript
                    ELSE <<h>>
         IN  out \o Format(Tail(template), role, transcript)

CreatePrompt(topic, format_type, transcript, prompt_type) ==
    Format(TemplateFor(format_type, prompt_type), RoleFor(topic), transcript)

Contains(text, token) == \E i \in 1..Len(text) : text[i] = token

----------------------------------------------------------------------------
(* One summarize run: request building, defaults, provider selection,
   prompts, response *)

ProviderArgs == {Absent, "gemini", "openai", "llama"}
CategoryArgs == {Absent, "general", "default", "tech", "cooking"}
FormatArgs == {Absent, "", "dialogue", "presentation", "panel"}
Scripts == {<<"hello", "world">>, <<"say", "{role}">>, <<"{transcript}">>}

NoJob ==
    [pc |-> "idle", via |-> "none", supplied |-> NoVal, body |-> NoVal,
     category |-> Absent, format_type |-> Absent, transcript |-> <<>>,
     prompts |-> NoVal, extractionCalls |-> 0, gatewayCalls |-> 0,
     backend |-> Absent, result |-> NoVal]

\* summarizeVideo: default parameters aiProvider = 'gemini' and
\* category = 'default'; format_type enters the body only when truthy.
SummarizeRequestBody(aiProvider, category, formatType) ==
    [ai_provider |-> IF aiProvider = Absent THEN "gemini" ELSE aiProvider,
     category |-> IF category = Absent THEN "default" ELSE category,
     format_type |-> IF formatType \in {Absent, ""} THEN Absent ELSE formatType]

\* Request schema: a field missing from the body takes the Field default.
SchemaDefaults(body) ==
    [body EXCEPT !.category = IF @ = Absent THEN "general" ELSE @,
                 !.format_type = IF @ = Absent THEN "dialogue" ELSE @]

\* Python "x or d".
OrDefault(x, d) == IF x \in {Absent, ""} THEN d ELSE x

SupportedProviders == {"gemini", "openai"}

\* A factory that routes every unrecognised provider to its first backend.
SelectBackend_FallBackToGemini(provider) ==
    IF provider \in SupportedProviders THEN provider ELSE "gemini"

\* AIServiceFactory: the backend is a function of the provider id; an
\* unrecognised id selects nothing.
SelectBackend(provider) ==
    IF provider \in SupportedProviders THEN provider ELSE Absent

RECURSIVE UpTo(_, _)
UpTo(text, token) ==
    IF text = <<>> \/ Head(text) = token THEN <<>>
    ELSE <<Head(text)>> \o UpTo(Tail(text), token)

\* A response that returns the prompts as they were sent.
RemoveScriptSection_Keep(prompt) == prompt

\* remove_script_section: the prompt without its separator and
\* [TARGET SCRIPT] part.
RemoveScriptSection(prompt) == UpTo(prompt, "==========")

----------------------------------------------------------------------------
(* ChatPanel: client state, and the chat endpoint as the client sees it *)

Questions == {"q1", "q2"}
VideoId == "v1"

Turn(role, content) == [role |-> role, content |-> content]
Greeting == Turn("assistant", "greeting")

\* The panel as mounted without initialMessages.
NewChat ==
    [messages |-> <<Greeting>>, conversationHistory |-> <<>>,
     isLoading |-> FALSE, call |-> NoVal, newHistory |-> <<>>,
     toast |-> "none", asked |-> 0, gatewayCalls |-> 0, last |-> NoVal,
     inFlight |-> 0]

\* A form that takes a submission whatever is in progress.
AcceptsSubmit_Always(c) == TRUE

\* handleSubmit goes past its first line, and the form lets the user submit:
\* nothing is loading.  (The input is non-empty: a question was typed.)
AcceptsSubmit(c) == ~c.isLoading

\* The reply the gateway generates from the transcript, the history it was
\* handed and the question.
ReplyTo(transcript, history, message) == <<"reply", transcript, history, message>>

\* An endpoint that answers every question as if it opened the conversation.
BackendChat_IgnoresHistory(c, t, fate, call) ==
    LET look == CachedLookup(c, call.video_id, t)
    IN  IF ~look.found THEN ErrResponse("transcript_not_found")
        ELSE IF fate = "failed" THEN ErrResponse("generation_failed")
        ELSE OkResponse([video_id |-> call.video_id,
                         reply |-> ReplyTo(look.transcript, <<>>, call.message)])

\* chat endpoint: cache lookup by video_id, then one gateway call whose input is
\* the transcript, the request's conversation_history and the request's message.
BackendChat(c, t, fate, call) ==
    LET look == CachedLookup(c, call.video_id, t)
    IN  IF ~look.found THEN ErrResponse("transcript_not_found")
        ELSE IF fate = "failed" THEN ErrResponse("generation_failed")
        ELSE OkResponse([video_id |-> call.video_id,
                         reply |-> ReplyTo(look.transcript,
                                           call.conversation_history,
                                           call.message)])

\* Gateway calls the chat endpoint makes for one request.
ChatGatewayCalls(c, t, call) ==
    IF CachedLookup(c, call.video_id, t).found THEN 1 ELSE 0

----------------------------------------------------------------------------
(* Index page: progress arithmetic and client state.  Progress values are
   kept in tenths of a percent point, so that 2.5, 41.5 and steps of 1.5 are
   integers. *)

Scale == 10

Steps == <<"validating", "verifying", "extracting", "summarizing", "complete">>

StepWeights ==
    [validating |-> 5, verifying |-> 10, extracting |-> 20, summarizing |-> 65,
     complete |-> 100]

IndexOfStep(step) == CHOOSE i \in 1..Len(Steps) : Steps[i] = step

RECURSIVE WeightBefore(_)
WeightBefore(i) ==
    IF i <= 1 THEN 0 ELSE StepWeights[Steps[i - 1]] + WeightBefore(i - 1)

\* calculateProgress: the weights of the steps before this one, plus this
\* step's weight times stepProgress / 100.
CalculateProgress(step, stepProgress) ==
    Scale * WeightBefore(IndexOfStep(step))
        + (StepWeights[step] * stepProgress * Scale) \div 100

\* updateStep
StepState(step, stepProgress) ==
    [currentStep |-> step, progress |-> CalculateProgress(step, stepProgress),
     error |-> NoVal]

Min(a, b) == IF a < b THEN a ELSE b

\* The state update of the summaryTimer interval.
TimerUpdate(prev) ==
    IF prev.currentStep = "extracting"
          /\ prev.progress >= CalculateProgress("extracting", 80)
    THEN [prev EXCEPT !.currentStep = "summarizing",
                      !.progress = CalculateProgress("summarizing", 10)]
    ELSE IF prev.currentStep = "summarizing" /\ prev.progress < 95 * Scale
    THEN [prev EXCEPT !.progress = Min(@ + (3 * Scale) \div 2, 95 * Scale)]
    ELSE IF prev.currentStep = "extracting"
              /\ prev.progress < CalculateProgress("extracting", 80)
    THEN [prev EXCEPT !.progress = @ + Scale]
    ELSE prev

ErrKinds == {"url", "video", "script", "api", "other"}

\* getErrorStep: the step guessed from the error message, else currentStep.
GetErrorStep(kind, currentStep) ==
    CASE kind = "url"    -> "validating"
      [] kind = "video"  -> "verifying"
      [] kind = "script" -> "extracting"
      [] kind = "api"    -> "summarizing"
      [] OTHER           -> currentStep

Handlers == {"h1", "h2"}

\* Submissions followed per mount of the page.
MaxSubmits == 2

IdleHandler ==
    [pc |-> "idle", aborted |-> FALSE, closure |-> NoVal, timer |-> FALSE, n |-> 0]

\* ProcessDialog: what it offers for the state it is given.
HasError(state) == state.error # NoVal
IsProcessing(state) == ~HasError(state) /\ state.currentStep # "complete"

NewIndex ==
    [isLoading |-> FALSE, showProcessDialog |-> FALSE,
     processState |-> [currentStep |-> "validating", progress |-> 0, error |-> NoVal],
     abortController |-> "null",
     handlers |-> [h \in Handlers |-> IdleHandler],
     leaked |-> FALSE, navigated |-> FALSE, toast |-> "none", submits |-> 0]

----------------------------------------------------------------------------
(* timeUtils.  A string is a sequence of one-character strings. *)

MaxLen == 5
MaxSeconds == 700

DigitChars == <<"0", "1", "2", "3", "4", "5", "6", "7", "8", "9">>

\* The characters the strings handed to timestampToSeconds are made of.
InputChars == {"0", "1", "5", "9", ":", "x"}

Strings == UNION {[1..k -> InputChars] : k \in 0..MaxLen}

IsDigit(c) == \E d \in 1..Len(DigitChars) : DigitChars[d] = c

DigitVal(c) == (CHOOSE d \in 1..Len(DigitChars) : DigitChars[d] = c) - 1

\* parseInt(s, 10) on a string of decimal digits
RECURSIVE ParseInt(_)
ParseInt(s) ==
    IF s = <<>> THEN 0
    ELSE 10 * ParseInt(SubSeq(s, 1, Len(s) - 1)) + DigitVal(s[Len(s)])

\* timestamp.match(/^(\d+):(\d{2})$/): the two groups, or NoVal
MatchTimestamp(s) ==
    IF /\ Len(s) >= 4
       /\ s[Len(s) - 2] = ":"
       /\ \A k \in 1..Len(s) : k # Len(s) - 2 => IsDigit(s[k])
    THEN [minutes |-> SubSeq(s, 1, Len(s) - 3),
          seconds |-> SubSeq(s, Len(s) - 1, Len(s))]
    ELSE NoVal

TimestampToSeconds(timestamp) ==
    LET match == MatchTimestamp(timestamp)
    IN  IF match = NoVal THEN 0
        ELSE ParseInt(match.minutes) * 60 + ParseInt(match.seconds)

\* Number.prototype.toString() on a non-negative integer
RECURSIVE NumberToString(_)
NumberToString(n) ==
    IF n < 10 THEN <<DigitChars[n + 1]>>
    ELSE NumberToString(n \div 10) \o <<DigitChars[(n % 10) + 1]>>

\* A padding that leaves the string as it is.
PadStart_None(s, width) == s

\* s.padStart(width, '0')
RECURSIVE PadStart(_, _)
PadStart(s, width) ==
    IF Len(s) >= width THEN s ELSE PadStart(<<"0">> \o s, width)

SecondsToTimestamp(seconds) ==
    LET minutes == seconds \div 60
        remainingSeconds == seconds % 60
    IN  NumberToString(minutes) \o <<":">> \o PadStart(NumberToString(remainingSeconds), 2)

NoConversion == [op |-> "none"]

----------------------------------------------------------------------------
(* Dashboard and SummaryPanel: client state for re-summarize *)

\* The prompt pairs the user can have in the edit dialog.
PromptEdits == {"edit1", "edit2"}

\* videoData as the page got it from the navigation state.
InitialData == [from |-> "summarize"]

\* The VideoData a successful custom summarize returns for the prompts sent.
Resummarized(prompts) == [from |-> "custom", prompts |-> prompts]

Calls == {"c1", "c2"}

IdleCall == [pc |-> "idle", aborted |-> FALSE, prompts |-> "none"]

NewDash ==
    [videoData |-> InitialData,
     editDialogOpen |-> FALSE, isResummarizing |-> FALSE,
     showProcessDialog |-> FALSE, abortController |-> "null",
     processState |-> [currentStep |-> "summarizing", progress |-> 0, error |-> NoVal],
     calls |-> [c \in Calls |-> IdleCall],
     toast |-> "none", settled |-> NoVal]

----------------------------------------------------------------------------
(* AdminSettings: client state and localStorage *)

MaxPromptLoads == 2

ProviderItems == {"openai", "gemini"}

\* Options that are the same whatever the provider.
GetModelOptions_OpenAIOnly(provider) ==
    {"gpt-4o-mini", "gpt-4o", "gpt-4-turbo", "gpt-4", "o1-preview", "o1-mini"}

\* getModelOptions: the values offered for the provider
GetModelOptions(provider) ==
    IF provider = "gemini"
    THEN {"gemini-2.0-flash-exp", "gemini-1.5-flash", "gemini-1.5-pro",
          "gemini-2.0-pro-exp"}
    ELSE {"gpt-4o-mini", "gpt-4o", "gpt-4-turbo", "gpt-4", "o1-preview", "o1-mini"}

\* localStorage.getItem(key) || fallback
GetItemOr(storage, key, fallback) ==
    IF storage[key] = Absent \/ storage[key] = "" THEN fallback ELSE storage[key]

StoredProvider(storage) == GetItemOr(storage, "ai_provider", "openai")

StoredModel(storage) == GetItemOr(storage, "ai_model", "gpt-4o-mini")

EmptyStorage == [ai_provider |-> Absent, ai_model |-> Absent]

\* What GET /api/prompts/categories can resolve with.
CategoryLists == {<<>>, <<"general", "tech">>}

\* The component as mounted over the given localStorage.
MountAdmin(storage) ==
    [categories |-> <<>>, selectedCategory |-> "", currentTemplate |-> "null",
     isLoading |-> FALSE,
     aiProvider |-> StoredProvider(storage), aiModel |-> StoredModel(storage),
     localStorage |-> storage,
     categoriesLoad |-> "pending", promptLoads |-> <<>>, toast |-> "none"]

NewAdmin == MountAdmin(EmptyStorage)

----------------------------------------------------------------------------
(* The cache driven directly through its interface *)

InitServer ==
    /\ now = 0
    /\ cache = EmptyCache
    /\ puts = [id \in ContentIds |-> <<>>]
    /\ got = NoGet
    /\ reqs = [r \in Reqs |-> IdleReq]

InitCache ==
    /\ InitServer
    /\ panel = NewPanel(MaxSeg)
    /\ chat = NewChat
    /\ job = NoJob
    /\ indexPage = NewIndex
    /\ timeUtils = NoConversion
    /\ dash = NewDash
    /\ admin = NewAdmin

Tick ==
    /\ now + HalfDay <= MaxTime
    /\ now' = now + HalfDay
    /\ got' = NoGet
    /\ UNCHANGED <<ui, cache, puts, reqs>>

CPut(id, text) ==
    /\ TotalPuts < MaxPuts
    /\ cache' = CachePut(cache, id, text, now)
    /\ puts' = LogPut(id, text, now)
    /\ got' = NoGet
    /\ UNCHANGED <<ui, now, reqs>>

CGet(id) ==
    /\ got' = [id |-> id, at |-> now, result |-> CacheGet(cache, id, now)]
    /\ UNCHANGED <<ui, now, cache, puts, reqs>>

CSweep ==
    /\ cache' = CacheSweep(cache, now)
    /\ got' = NoGet
    /\ UNCHANGED <<ui, now, puts, reqs>>

NextCache ==
    \/ Tick
    \/ \E id \in ContentIds, text \in Texts : CPut(id, text)
    \/ \E id \in ContentIds : CGet(id)
    \/ CSweep

SpecCache == InitCache /\ [][NextCache]_vars

----------------------------------------------------------------------------
(* The endpoints *)

\* summarize: the request is accepted and transcript extraction starts.
StartSummarize(r, id) ==
    /\ reqs[r].kind = "idle"
    /\ TotalPuts < MaxSummarize
    /\ reqs' = [reqs EXCEPT ![r] =
                    [IdleReq EXCEPT !.kind = "summarize", !.id = id,
                                    !.pc = "extracting"]]
    /\ UNCHANGED <<ui, now, cache, puts, got>>

\* Extraction returned raw_text: it is cached, then the overview call is issued.
ExtractDone(r, text) ==
    /\ reqs[r].kind = "summarize" /\ reqs[r].pc = "extracting"
    /\ cache' = CachePut(cache, reqs[r].id, text, now)
    /\ puts' = LogPut(reqs[r].id, text, now)
    /\ reqs' = [reqs EXCEPT ![r].pc = "overview", ![r].transcript = text,
                            ![r].ov = "inflight", ![r].calls = 1]
    /\ UNCHANGED <<ui, now, got>>

\* Extraction failed: nothing is cached and no gateway call is made.
ExtractFail(r) ==
    /\ reqs[r].kind = "summarize" /\ reqs[r].pc = "extracting"
    /\ reqs' = [reqs EXCEPT ![r] = Finish(@, ErrResponse("extraction_failed"))]
    /\ UNCHANGED <<ui, now, cache, puts, got>>

\* A buggy handler that also writes the transcript it found back into the cache.
StartResummarize_Recache(r, id, reqT) ==
    /\ reqs[r].kind = "idle"
    /\ LET look == ResummarizeLookup(reqT, cache, id, now)
           q == [IdleReq EXCEPT !.kind = "resummarize", !.id = id,
                                !.fromReq = Truthy(reqT), !.live = LiveAt(id, now)]
       IN  /\ reqs' = [reqs EXCEPT ![r] =
                   IF look.found
                   THEN [q EXCEPT !.pc = "overview", !.transcript = look.transcript,
                                  !.seen = look.seen, !.ov = "inflight", !.calls = 1]
                   ELSE Finish(q, ErrResponse("transcript_not_found"))]
           /\ cache' = IF look.found THEN CachePut(cache, id, look.transcript, now)
                       ELSE cache
    /\ UNCHANGED <<ui, now, puts, got>>

\* resummarize: look the transcript up, fail on a miss, else issue the overview call.
StartResummarize(r, id, reqT) ==
    /\ reqs[r].kind = "idle"
    /\ LET look == ResummarizeLookup(reqT, cache, id, now)
           q == [IdleReq EXCEPT !.kind = "resummarize", !.id = id,
                                !.fromReq = Truthy(reqT), !.live = LiveAt(id, now)]
       IN  reqs' = [reqs EXCEPT ![r] =
               IF look.found
               THEN [q EXCEPT !.pc = "overview", !.transcript = look.transcript,
                              !.seen = look.seen, !.ov = "inflight", !.calls = 1]
               ELSE Finish(q, ErrResponse("transcript_not_found"))]
    /\ UNCHANGED <<ui, now, cache, puts, got>>

\* A buggy step that answers as soon as the overview call is back, leaving the
\* detail call in flight.
OverviewDone_ReturnEarly(r, ok) ==
    /\ reqs[r].pc = "overview" /\ reqs[r].ov = "inflight"
    /\ LET o == IF ok THEN "ok" ELSE "failed"
       IN  reqs' = [reqs EXCEPT ![r] =
               Finish([@ EXCEPT !.ov = o, !.dt = "inflight", !.calls = @ + 1],
                      DualResponse(o, "failed", reqs[r].transcript))]
    /\ UNCHANGED <<ui, now, cache, puts, got>>

\* The overview gateway call returns; the detail call is issued next.
OverviewDone(r, ok) ==
    /\ reqs[r].pc = "overview" /\ reqs[r].ov = "inflight"
    /\ reqs' = [reqs EXCEPT ![r].ov = IF ok THEN "ok" ELSE "failed",
                            ![r].pc = "detail", ![r].dt = "inflight",
                            ![r].calls = @ + 1]
    /\ UNCHANGED <<ui, now, cache, puts, got>>

\* The detail gateway call returns; both outcomes are joined into the response.
DetailDone(r, ok) ==
    /\ reqs[r].pc = "detail" /\ reqs[r].dt = "inflight"
    /\ LET d == IF ok THEN "ok" ELSE "failed"
       IN  reqs' = [reqs EXCEPT ![r] =
               Finish([@ EXCEPT !.dt = d],
                      DualResponse(reqs[r].ov, d, reqs[r].transcript))]
    /\ UNCHANGED <<ui, now, cache, puts, got>>

\* chat / translate one / translate batch: cache lookup, then one gateway call.
StartCached(r, kind, id, n) ==
    /\ reqs[r].kind = "idle"
    /\ LET look == CachedLookup(cache, id, now)
           q == [IdleReq EXCEPT !.kind = kind, !.id = id, !.n = n,
                                !.live = LiveAt(id, now)]
       IN  reqs' = [reqs EXCEPT ![r] =
               IF look.found
               THEN [q EXCEPT !.pc = "generating", !.transcript = look.transcript,
                              !.seen = look.seen, !.calls = 1]
               ELSE Finish(q, ErrResponse("transcript_not_found"))]
    /\ UNCHANGED <<ui, now, cache, puts, got>>

\* The single gateway call of a chat or translate-one request returns.
ReplyDone(r, ok) ==
    /\ reqs[r].pc = "generating" /\ reqs[r].kind \in {"chat", "translateOne"}
    /\ reqs' = [reqs EXCEPT ![r] =
           Finish(@, IF ok
                     THEN OkResponse([reply |-> Generated(reqs[r].kind,
                                                           reqs[r].transcript)])
                     ELSE ErrResponse("generation_failed"))]
    /\ UNCHANGED <<ui, now, cache, puts, got>>

\* The single gateway call of a translate-batch request returns m entries.
BatchDone(r, m) ==
    /\ reqs[r].pc = "generating" /\ reqs[r].kind = "translateBatch"
    /\ reqs' = [reqs EXCEPT ![r] =
           Finish(@, TranslateBatchResponse(reqs[r].n, LLMBatch(m)))]
    /\ UNCHANGED <<ui, now, cache, puts, got>>

\* The gateway call of a translate-batch request fails.
BatchFail(r) ==
    /\ reqs[r].pc = "generating" /\ reqs[r].kind = "translateBatch"
    /\ reqs' = [reqs EXCEPT ![r] = Finish(@, ErrResponse("generation_failed"))]
    /\ UNCHANGED <<ui, now, cache, puts, got>>

\* The caller has taken the outcome; the slot serves the next request.
Recycle(r) ==
    /\ reqs[r].pc = "done"
    /\ reqs' = [reqs EXCEPT ![r] = IdleReq]
    /\ UNCHANGED <<ui, now, cache, puts, got>>

\* A TTL's worth of time passes while requests are being served.
TickTTL ==
    /\ now + TTL <= MaxTime
    /\ now' = now + TTL
    /\ UNCHANGED <<ui, cache, puts, got, reqs>>

NextServer ==
    \/ TickTTL
    \/ CSweep
    \/ \E r \in Reqs, id \in ServedIds : StartSummarize(r, id)
    \/ \E r \in Reqs, text \in Texts : ExtractDone(r, text)
    \/ \E r \in Reqs : ExtractFail(r)
    \/ \E r \in Reqs, id \in ServedIds, reqT \in {Absent, "", "T"} :
            StartResummarize(r, id, reqT)
    \/ \E r \in Reqs, ok \in BOOLEAN : OverviewDone(r, ok)
    \/ \E r \in Reqs, ok \in BOOLEAN : DetailDone(r, ok)
    \/ \E r \in Reqs, id \in ServedIds, kind \in {"chat", "translateOne"} :
            StartCached(r, kind, id, 0)
    \/ \E r \in Reqs, id \in ServedIds :
            StartCached(r, "translateBatch", id, MaxSeg)
    \/ \E r \in Reqs, ok \in BOOLEAN : ReplyDone(r, ok)
    \/ \E r \in Reqs, m \in {MaxSeg - 1, MaxSeg, MaxSeg + 1} : BatchDone(r, m)
    \/ \E r \in Reqs : BatchFail(r)
    \/ \E r \in Reqs : Recycle(r)

SpecServer == InitCache /\ [][NextServer]_vars

----------------------------------------------------------------------------
(* TranscriptPanel: handlers *)

InitPanel ==
    /\ InitServer
    /\ \E n \in 1..MaxSeg : panel = NewPanel(n)
    /\ chat = NewChat
    /\ job = NoJob
    /\ indexPage = NewIndex
    /\ timeUtils = NoConversion
    /\ dash = NewDash
    /\ admin = NewAdmin

\* handleTranslateSegment up to its await; the button is disabled while the
\* segment or the full translation is in progress.
ClickTranslateSegment(i) ==
    /\ i \in 0..(panel.lines - 1)
    /\ IssuesTranslateSegment(panel, i)
    /\ panel.segClicks < MaxSegClicks
    /\ panel' = [panel EXCEPT !.translatingSegments = @ \cup {i},
                              !.segCalls[i] = @ + 1,
                              !.segClicks = @ + 1]
    /\ UNCHANGED <<server, chat, job, indexPage, timeUtils, dash, admin>>

\* handleTranslateSegment from its await on: try / catch / finally.
SegmentResponse(i, fate) ==
    /\ i \in 0..(panel.lines - 1)
    /\ panel.segCalls[i] > 0
    /\ LET result == ClientResult(BackendTranslateOne(fate, i))
       IN  panel' =
             IF result.status = "ok"
             THEN [panel EXCEPT
                     !.segmentTranslations = MapSet(@, i, result.data.translation),
                     !.toast = "success",
                     !.translatingSegments = WithoutSegment(@, i),
                     !.segCalls[i] = @ - 1]
             ELSE [panel EXCEPT !.toast = "error",
                                !.translatingSegments = WithoutSegment(@, i),
                                !.segCalls[i] = @ - 1]
    /\ UNCHANGED <<server, chat, job, indexPage, timeUtils, dash, admin>>

\* handleTranslateFull up to its await; the button is disabled while a full
\* translation is in progress.
ClickTranslateFull ==
    /\ ~panel.isTranslatingFull
    /\ IF TogglesOnly(panel)
       THEN panel' = [panel EXCEPT !.showTranslation = ~@]
       ELSE /\ Len(panel.batches) < MaxBatches
            /\ panel' = [panel EXCEPT !.isTranslatingFull = TRUE,
                                      !.fullCalls = @ + 1]
    /\ UNCHANGED <<server, chat, job, indexPage, timeUtils, dash, admin>>

\* handleTranslateFull from its await on: try / catch / finally.  The gateway
\* produced m entries for the panel's lines when the call got that far.
BatchResponse(fate, m) ==
    /\ panel.fullCalls > 0
    /\ LET result == ClientResult(BackendTranslateBatch(fate, panel.lines, m))
           done == [fate |-> fate, produced |-> m, outcome |-> result]
       IN  panel' =
             IF result.status = "ok"
             THEN [panel EXCEPT
                     !.segmentTranslations = MapFromList(result.data.translations),
                     !.showTranslation = TRUE,
                     !.toast = "success",
                     !.isTranslatingFull = FALSE,
                     !.fullCalls = @ - 1,
                     !.batches = Append(@, done)]
             ELSE [panel EXCEPT !.toast = "error",
                                !.isTranslatingFull = FALSE,
                                !.fullCalls = @ - 1,
                                !.batches = Append(@, done)]
    /\ UNCHANGED <<server, chat, job, indexPage, timeUtils, dash, admin>>

NextPanel ==
    \/ \E i \in 0..(MaxSeg - 1) : ClickTranslateSegment(i)
    \/ \E i \in 0..(MaxSeg - 1), fate \in Fates : SegmentResponse(i, fate)
    \/ ClickTranslateFull
    \/ \E fate \in Fates, m \in 0..(MaxSeg + 1) : BatchResponse(fate, m)

SpecPanel == InitPanel /\ [][NextPanel]_vars

\* Every request that is in flight settles: the network answers or fails.
SpecPanelFair ==
    /\ SpecPanel
    /\ \A i \in 0..(MaxSeg - 1) : WF_vars(\E fate \in Fates : SegmentResponse(i, fate))
    /\ WF_vars(\E fate \in Fates, m \in 0..(MaxSeg + 1) : BatchResponse(fate, m))

----------------------------------------------------------------------------
(* ChatPanel: handlers *)

\* handleSubmit up to its await: the user turn is appended to messages and to
\* conversationHistory, and the call carries the history as it was before.
ChatSubmit(q) ==
    /\ AcceptsSubmit(chat)
    /\ chat.asked < MaxAsk
    /\ LET newHistory == Append(chat.conversationHistory, Turn("user", q))
       IN  chat' = [chat EXCEPT
                      !.messages = Append(@, Turn("user", q)),
                      !.conversationHistory = newHistory,
                      !.newHistory = newHistory,
                      !.isLoading = TRUE,
                      !.asked = @ + 1,
                      !.inFlight = @ + 1,
                      !.call = [video_id |-> VideoId, message |-> q,
                                conversation_history |-> chat.conversationHistory]]
    /\ UNCHANGED <<server, panel, job, indexPage, timeUtils, dash, admin>>

\* handleSubmit from its await on, the endpoint having answered.
ChatResponse(fate) ==
    /\ chat.inFlight > 0
    /\ LET result == ClientResult(BackendChat(cache, now, fate, chat.call))
           done == [how |-> "answered", call |-> chat.call, outcome |-> result,
                    calls |-> ChatGatewayCalls(cache, now, chat.call)]
       IN  chat' =
             IF result.status = "ok"
             THEN [chat EXCEPT
                     !.messages = Append(@, Turn("assistant", result.data.reply)),
                     !.conversationHistory =
                         Append(chat.newHistory,
                                Turn("assistant", result.data.reply)),
                     !.isLoading = FALSE, !.call = NoVal, !.inFlight = @ - 1,
                     !.gatewayCalls = @ + done.calls, !.last = done]
             ELSE [chat EXCEPT
                     !.toast = "error",
                     !.isLoading = FALSE, !.call = NoVal, !.inFlight = @ - 1,
                     !.gatewayCalls = @ + done.calls, !.last = done]
    /\ UNCHANGED <<server, panel, job, indexPage, timeUtils, dash, admin>>

\* handleSubmit from its await on, the request having been cancelled in flight:
\* fetch rejects, the wrapper rethrows, the catch block shows the error.
ChatAborted ==
    /\ chat.inFlight > 0
    /\ chat' = [chat EXCEPT
                  !.toast = "error", !.isLoading = FALSE, !.call = NoVal,
                  !.inFlight = @ - 1,
                  !.last = [how |-> "aborted", call |-> chat.call,
                            outcome |-> NoOutcome, calls |-> 0]]
    /\ UNCHANGED <<server, panel, job, indexPage, timeUtils, dash, admin>>

NextChat ==
    \/ \E q \in Questions : ChatSubmit(q)
    \/ \E fate \in {"failed", "returned"} : ChatResponse(fate)
    \/ ChatAborted
    \/ \E text \in Texts : CPut(VideoId, text)
    \/ TickTTL
    \/ CSweep

SpecChat == InitCache /\ [][NextChat]_vars

----------------------------------------------------------------------------
(* One summarize run: steps *)

\* A caller invokes the client wrapper; Absent is an omitted argument.
CallSummarizeVideo(aiProvider, category, formatType) ==
    /\ job.pc = "idle"
    /\ job' = [NoJob EXCEPT
                 !.pc = "sent", !.via = "wrapper",
                 !.supplied = [provider |-> aiProvider, topicKey |-> category,
                               formatKind |-> formatType],
                 !.body = SummarizeRequestBody(aiProvider, category, formatType)]
    /\ UNCHANGED <<server, panel, chat, indexPage, timeUtils, dash, admin>>

\* A client posts a request body of its own; Absent is a missing field.
PostSummarize(provider, category, format) ==
    /\ job.pc = "idle"
    /\ provider # Absent
    /\ job' = [NoJob EXCEPT
                 !.pc = "sent", !.via = "post",
                 !.supplied = [provider |-> provider, topicKey |-> category,
                               formatKind |-> format],
                 !.body = [ai_provider |-> provider, category |-> category,
                           format_type |-> format]]
    /\ UNCHANGED <<server, panel, chat, indexPage, timeUtils, dash, admin>>

\* The endpoint parses the request, resolves the defaults and selects the
\* backend; with a backend it starts transcript extraction.
AcceptSummarize ==
    /\ job.pc = "sent"
    /\ LET request == SchemaDefaults(job.body)
           backend == SelectBackend(request.ai_provider)
           j == [job EXCEPT
                   !.category = OrDefault(request.category, "general"),
                   !.format_type = OrDefault(request.format_type, "dialogue"),
                   !.backend = backend]
       IN  job' = IF backend = Absent
                  THEN [j EXCEPT !.pc = "done",
                            !.result = ClientResult(ErrResponse("provider_config_error"))]
                  ELSE [j EXCEPT !.pc = "extracting", !.extractionCalls = 1]
    /\ UNCHANGED <<server, panel, chat, indexPage, timeUtils, dash, admin>>

\* Extraction returns the script; both prompts are composed and sent to the
\* gateway.
ExtractedScript(script) ==
    /\ job.pc = "extracting"
    /\ job' = [job EXCEPT
                 !.pc = "generating", !.transcript = script,
                 !.prompts =
                     [overview |-> CreatePrompt(job.category, job.format_type,
                                                script, "overview"),
                      detail |-> CreatePrompt(job.category, job.format_type,
                                              script, "detail")],
                 !.gatewayCalls = 2]
    /\ UNCHANGED <<server, panel, chat, indexPage, timeUtils, dash, admin>>

\* Extraction fails.
ScriptUnavailable ==
    /\ job.pc = "extracting"
    /\ job' = [job EXCEPT !.pc = "done",
                          !.result = ClientResult(ErrResponse("no_transcript"))]
    /\ UNCHANGED <<server, panel, chat, indexPage, timeUtils, dash, admin>>

\* Both gateway calls are back; the response is built.
RespondSummary ==
    /\ job.pc = "generating"
    /\ job' = [job EXCEPT
                 !.pc = "done",
                 !.result = ClientResult(OkResponse(
                     [summary_overview |-> Generated("overview", job.prompts.overview),
                      summary_detail |-> Generated("detail", job.prompts.detail),
                      category |-> job.category,
                      format_type |-> job.format_type,
                      ai_provider |-> job.backend,
                      prompts_used |->
                          [overview |-> RemoveScriptSection(job.prompts.overview),
                           detail |-> RemoveScriptSection(job.prompts.detail)]]))]
    /\ UNCHANGED <<server, panel, chat, indexPage, timeUtils, dash, admin>>

\* The caller has the outcome; the next run can start.
NextRun ==
    /\ job.pc = "done"
    /\ job' = NoJob
    /\ UNCHANGED <<server, panel, chat, indexPage, timeUtils, dash, admin>>

NextJob ==
    \/ \E a \in ProviderArgs, c \in CategoryArgs, f \in FormatArgs :
            CallSummarizeVideo(a, c, f)
    \/ \E a \in ProviderArgs, c \in CategoryArgs, f \in FormatArgs :
            PostSummarize(a, c, f)
    \/ AcceptSummarize
    \/ \E script \in Scripts : ExtractedScript(script)
    \/ ScriptUnavailable
    \/ RespondSummary
    \/ NextRun

SpecJob == InitCache /\ [][NextJob]_vars

----------------------------------------------------------------------------
(* Index page: handlers.  A handler is one call of handleSubmit; it holds its
   own AbortController, its interval, and the processState of the render that
   created it. *)

\* A catch block that never sees the signal as aborted.
SignalAborted_Never(h) == FALSE

\* controller.signal.aborted, as the catch block of handler h reads it.
SignalAborted(h) == indexPage.handlers[h].aborted

\* The slot a new call of handleSubmit takes: the first idle one.
FreeHandler(h) ==
    /\ indexPage.handlers[h].pc = "idle"
    /\ h = "h2" => indexPage.handlers["h1"].pc # "idle"

\* No call of handleSubmit made before h's is still at one of the given
\* waits: timeouts of equal delay fire in the order they were set.
NoEarlierAt(h, pcs) ==
    \A g \in Handlers :
        indexPage.handlers[g].pc \in pcs
            => indexPage.handlers[g].n >= indexPage.handlers[h].n

\* handleSubmit up to its first await.
StartSubmit(h) ==
    [indexPage EXCEPT
        !.handlers[h] = [pc |-> "validating", aborted |-> FALSE,
                         closure |-> indexPage.processState, timer |-> FALSE,
                         n |-> indexPage.submits + 1],
        !.abortController = h,
        !.isLoading = TRUE,
        !.showProcessDialog = TRUE,
        !.processState = StepState("validating", 50),
        !.toast = "none",
        !.submits = @ + 1]

\* The form is submitted: the button is enabled while nothing is loading.
HandleSubmit(h) ==
    /\ ~indexPage.navigated
    /\ ~indexPage.isLoading
    /\ ~indexPage.showProcessDialog
    /\ FreeHandler(h)
    /\ indexPage.submits < MaxSubmits
    /\ indexPage' = StartSubmit(h)
    /\ UNCHANGED <<server, panel, chat, job, timeUtils, dash, admin>>

\* handleRetry, offered by the dialog when it shows an error: resets the state,
\* closes the dialog and dispatches the form's submit event, which runs
\* handleSubmit of the current render.
HandleRetry(h) ==
    /\ ~indexPage.navigated
    /\ indexPage.showProcessDialog
    /\ HasError(indexPage.processState)
    /\ FreeHandler(h)
    /\ indexPage.submits < MaxSubmits
    /\ indexPage' = StartSubmit(h)
    /\ UNCHANGED <<server, panel, chat, job, timeUtils, dash, admin>>

\* The first 200 ms wait is over: updateStep('verifying', 50).
ValidatingShown(h) ==
    /\ indexPage.handlers[h].pc = "validating"
    /\ NoEarlierAt(h, {"validating"})
    /\ indexPage' = [indexPage EXCEPT
            !.handlers[h].pc = "verifying",
            !.processState = StepState("verifying", 50)]
    /\ UNCHANGED <<server, panel, chat, job, timeUtils, dash, admin>>

\* The second wait is over: updateStep('extracting', 0), the request is sent
\* with the controller's signal, and the interval starts.
VerifyingShown(h) ==
    /\ indexPage.handlers[h].pc = "verifying"
    /\ NoEarlierAt(h, {"validating", "verifying"})
    /\ indexPage' = [indexPage EXCEPT
            !.handlers[h].pc = "calling",
            !.handlers[h].timer = TRUE,
            !.processState = StepState("extracting", 0)]
    /\ UNCHANGED <<server, panel, chat, job, timeUtils, dash, admin>>

\* One firing of a summaryTimer interval, of a handler still waiting or of one
\* that ended in its catch block without clearing it.
SummaryTimer ==
    /\ ~indexPage.navigated
    /\ indexPage.leaked \/ \E h \in Handlers : indexPage.handlers[h].timer
    /\ indexPage' = [indexPage EXCEPT !.processState = TimerUpdate(@)]
    /\ UNCHANGED <<server, panel, chat, job, timeUtils, dash, admin>>

\* The request resolves: clearInterval, updateStep('complete', 100), and the
\* 800 ms timeout is armed.
SummarizeResolved(h) ==
    /\ indexPage.handlers[h].pc = "calling"
    /\ ~indexPage.handlers[h].aborted
    /\ indexPage' = [indexPage EXCEPT
            !.handlers[h].pc = "closing",
            !.handlers[h].timer = FALSE,
            !.processState = StepState("complete", 100)]
    /\ UNCHANGED <<server, panel, chat, job, timeUtils, dash, admin>>

\* The 800 ms timeout fires: the dialog closes and the page navigates away.
\* The component unmounts: its state is gone, and what its handlers and timers
\* still do has no effect.
NavigateToDashboard(h) ==
    /\ indexPage.handlers[h].pc = "closing"
    /\ indexPage' = [NewIndex EXCEPT !.navigated = TRUE,
                                     !.submits = indexPage.submits]
    /\ UNCHANGED <<server, panel, chat, job, timeUtils, dash, admin>>

\* The request rejects and the controller was not aborted: the catch block
\* spreads the processState of the render that created the handler.
SummarizeFailed(h, kind) ==
    /\ indexPage.handlers[h].pc = "calling"
    /\ ~SignalAborted(h)
    /\ LET closure == indexPage.handlers[h].closure
           errorStep == GetErrorStep(kind, closure.currentStep)
       IN  indexPage' = [indexPage EXCEPT
               !.handlers[h] = IdleHandler,
               !.leaked = TRUE,
               !.processState = [closure EXCEPT !.currentStep = errorStep,
                                                !.error = [step |-> errorStep]],
               !.toast = "error",
               !.isLoading = FALSE]
    /\ UNCHANGED <<server, panel, chat, job, timeUtils, dash, admin>>

\* The request rejects because the controller was aborted.
SummarizeAborted(h) ==
    /\ indexPage.handlers[h].pc = "calling"
    /\ indexPage.handlers[h].aborted
    /\ SignalAborted(h)
    /\ indexPage' = [indexPage EXCEPT
            !.handlers[h] = IdleHandler,
            !.leaked = TRUE,
            !.showProcessDialog = FALSE,
            !.isLoading = FALSE,
            !.abortController = "null"]
    /\ UNCHANGED <<server, panel, chat, job, timeUtils, dash, admin>>

\* handleCancel, offered by the dialog while it shows a step in progress.
HandleCancel ==
    /\ ~indexPage.navigated
    /\ indexPage.showProcessDialog
    /\ IsProcessing(indexPage.processState)
    /\ LET c == indexPage.abortController
       IN  indexPage' = [indexPage EXCEPT
               !.handlers = IF c \in Handlers /\ indexPage.handlers[c].pc # "idle"
                            THEN [@ EXCEPT ![c].aborted = TRUE]
                            ELSE @,
               !.abortController = "null",
               !.showProcessDialog = FALSE,
               !.isLoading = FALSE,
               !.toast = "info"]
    /\ UNCHANGED <<server, panel, chat, job, timeUtils, dash, admin>>

\* handleCloseDialog, offered by the dialog when it shows an error.
HandleCloseDialog ==
    /\ ~indexPage.navigated
    /\ indexPage.showProcessDialog
    /\ HasError(indexPage.processState)
    /\ indexPage' = [indexPage EXCEPT !.showProcessDialog = FALSE,
                                      !.isLoading = FALSE]
    /\ UNCHANGED <<server, panel, chat, job, timeUtils, dash, admin>>

\* The user comes back to the page: the component mounts with fresh state.
MountIndex ==
    /\ indexPage.navigated
    /\ indexPage' = NewIndex
    /\ UNCHANGED <<server, panel, chat, job, timeUtils, dash, admin>>

NextIndex ==
    \/ \E h \in Handlers : HandleSubmit(h)
    \/ \E h \in Handlers : HandleRetry(h)
    \/ \E h \in Handlers : ValidatingShown(h)
    \/ \E h \in Handlers : VerifyingShown(h)
    \/ SummaryTimer
    \/ \E h \in Handlers : SummarizeResolved(h)
    \/ \E h \in Handlers : NavigateToDashboard(h)
    \/ \E h \in Handlers, kind \in ErrKinds : SummarizeFailed(h, kind)
    \/ \E h \in Handlers : SummarizeAborted(h)
    \/ HandleCancel
    \/ HandleCloseDialog
    \/ MountIndex

SpecIndex == InitCache /\ [][NextIndex]_vars

----------------------------------------------------------------------------
(* timeUtils: calls *)

\* The arguments a caller can hand to either function.
Arguments ==
    {[op |-> "string", timestamp |-> s] : s \in Strings}
        \cup {[op |-> "number", seconds |-> n] : n \in 0..MaxSeconds}

InitTime ==
    /\ InitServer
    /\ panel = NewPanel(MaxSeg)
    /\ chat = NewChat
    /\ job = NoJob
    /\ indexPage = NewIndex
    /\ dash = NewDash
    /\ admin = NewAdmin
    /\ timeUtils \in Arguments

\* timestampToSeconds(timestamp)
CallTimestampToSeconds ==
    /\ timeUtils.op = "string"
    /\ timeUtils' = [op |-> "timestampToSeconds", timestamp |-> timeUtils.timestamp,
                     seconds |-> TimestampToSeconds(timeUtils.timestamp)]
    /\ UNCHANGED <<server, panel, chat, job, indexPage, dash, admin>>

\* secondsToTimestamp(seconds)
CallSecondsToTimestamp ==
    /\ timeUtils.op = "number"
    /\ timeUtils' = [op |-> "secondsToTimestamp", seconds |-> timeUtils.seconds,
                     timestamp |-> SecondsToTimestamp(timeUtils.seconds)]
    /\ UNCHANGED <<server, panel, chat, job, indexPage, dash, admin>>

\* The result of the latest call is handed to the other function.
ConvertBack ==
    /\ timeUtils.op \in {"timestampToSeconds", "secondsToTimestamp"}
    /\ timeUtils' =
          IF timeUtils.op = "timestampToSeconds"
          THEN [op |-> "timestampToSeconds-back", timestamp |-> timeUtils.timestamp,
                seconds |-> timeUtils.seconds,
                back |-> SecondsToTimestamp(timeUtils.seconds)]
          ELSE [op |-> "secondsToTimestamp-back", seconds |-> timeUtils.seconds,
                timestamp |-> timeUtils.timestamp,
                back |-> TimestampToSeconds(timeUtils.timestamp)]
    /\ UNCHANGED <<server, panel, chat, job, indexPage, dash, admin>>

NextTime ==
    \/ CallTimestampToSeconds
    \/ CallSecondsToTimestamp
    \/ ConvertBack

SpecTime == InitTime /\ [][NextTime]_vars

----------------------------------------------------------------------------
(* Dashboard and SummaryPanel: handlers *)

\* A fetch that was not handed the signal.
AbortedInFlight_SignalIgnored(c) == FALSE

\* customSummarize hands the signal to fetch: once the controller of call c is
\* aborted the request rejects and can no longer resolve.
AbortedInFlight(c) == dash.calls[c].aborted

\* The slot a new call of handleResummarize takes: the first idle one.
FreeCall(c) ==
    /\ dash.calls[c].pc = "idle"
    /\ c = "c2" => dash.calls["c1"].pc # "idle"

\* The "edit prompts" button.
OpenEditDialog ==
    /\ ~dash.editDialogOpen
    /\ ~dash.showProcessDialog
    /\ dash' = [dash EXCEPT !.editDialogOpen = TRUE]
    /\ UNCHANGED <<server, panel, chat, job, indexPage, timeUtils, admin>>

\* The edit dialog is dismissed (onOpenChange).
CloseEditDialog ==
    /\ dash.editDialogOpen
    /\ ~dash.showProcessDialog
    /\ dash' = [dash EXCEPT !.editDialogOpen = FALSE]
    /\ UNCHANGED <<server, panel, chat, job, indexPage, timeUtils, admin>>

\* SummaryPanel.handleResummarize up to its await, Dashboard.handleResummarize
\* up to its own: the request goes out with the controller's signal and the
\* interval starts.
ClickResummarize(c, prompts) ==
    /\ dash.editDialogOpen
    /\ ~dash.showProcessDialog
    /\ ~dash.isResummarizing
    /\ FreeCall(c)
    /\ dash' = [dash EXCEPT
            !.calls[c] = [pc |-> "waiting", aborted |-> FALSE, prompts |-> prompts],
            !.abortController = c,
            !.isResummarizing = TRUE,
            !.showProcessDialog = TRUE,
            !.processState = [currentStep |-> "summarizing", progress |-> 35,
                              error |-> NoVal]]
    /\ UNCHANGED <<server, panel, chat, job, indexPage, timeUtils, admin>>

\* One firing of a progressInterval; it lives as long as its call waits.
ProgressInterval ==
    /\ \E c \in Calls : dash.calls[c].pc = "waiting"
    /\ dash' = [dash EXCEPT !.processState.progress = Min(@ + 2, 95)]
    /\ UNCHANGED <<server, panel, chat, job, indexPage, timeUtils, admin>>

\* customSummarize resolves: Dashboard replaces videoData and toasts; the
\* panel clears the interval, shows the completed step, arms the 800 ms
\* timeout, and its finally block resets isResummarizing.
ResummarizeResolved(c) ==
    /\ dash.calls[c].pc = "waiting"
    /\ ~AbortedInFlight(c)
    /\ dash' = [dash EXCEPT
            !.videoData = Resummarized(dash.calls[c].prompts),
            !.toast = "success",
            !.processState = [currentStep |-> "complete", progress |-> 100,
                              error |-> NoVal],
            !.calls[c].pc = "closing",
            !.isResummarizing = FALSE,
            !.settled = [call |-> c, how |-> "resolved",
                         prompts |-> dash.calls[c].prompts]]
    /\ UNCHANGED <<server, panel, chat, job, indexPage, timeUtils, admin>>

\* The 800 ms timeout fires.
ResummarizeShown(c) ==
    /\ dash.calls[c].pc = "closing"
    /\ dash' = [dash EXCEPT
            !.calls[c] = IdleCall,
            !.editDialogOpen = FALSE,
            !.showProcessDialog = FALSE,
            !.abortController = "null"]
    /\ UNCHANGED <<server, panel, chat, job, indexPage, timeUtils, admin>>

\* customSummarize rejects and the controller was not aborted: Dashboard
\* toasts and rethrows, the panel shows the error.
ResummarizeFailed(c) ==
    /\ dash.calls[c].pc = "waiting"
    /\ ~dash.calls[c].aborted
    /\ dash' = [dash EXCEPT
            !.toast = "error",
            !.processState = [currentStep |-> "summarizing", progress |-> 0,
                              error |-> [step |-> "summarizing"]],
            !.calls[c] = IdleCall,
            !.isResummarizing = FALSE,
            !.settled = [call |-> c, how |-> "failed",
                         prompts |-> dash.calls[c].prompts]]
    /\ UNCHANGED <<server, panel, chat, job, indexPage, timeUtils, admin>>

\* customSummarize rejects because the controller was aborted.
ResummarizeAborted(c) ==
    /\ dash.calls[c].pc = "waiting"
    /\ dash.calls[c].aborted
    /\ dash' = [dash EXCEPT
            !.toast = "error",
            !.calls[c] = IdleCall,
            !.showProcessDialog = FALSE,
            !.isResummarizing = FALSE,
            !.abortController = "null",
            !.settled = [call |-> c, how |-> "aborted",
                         prompts |-> dash.calls[c].prompts]]
    /\ UNCHANGED <<server, panel, chat, job, indexPage, timeUtils, admin>>

\* handleCancelResummarize, offered by the dialog while it shows a step in
\* progress.
HandleCancelResummarize ==
    /\ dash.showProcessDialog
    /\ IsProcessing(dash.processState)
    /\ LET c == dash.abortController
       IN  dash' = [dash EXCEPT
               !.calls = IF c \in Calls /\ dash.calls[c].pc = "waiting"
                         THEN [@ EXCEPT ![c].aborted = TRUE]
                         ELSE @,
               !.abortController = "null",
               !.showProcessDialog = FALSE,
               !.isResummarizing = FALSE,
               !.toast = "info"]
    /\ UNCHANGED <<server, panel, chat, job, indexPage, timeUtils, admin>>

\* onClose of the process dialog, offered when it shows an error.
CloseProcessDialog ==
    /\ dash.showProcessDialog
    /\ HasError(dash.processState)
    /\ dash' = [dash EXCEPT !.showProcessDialog = FALSE]
    /\ UNCHANGED <<server, panel, chat, job, indexPage, timeUtils, admin>>

NextDash ==
    \/ OpenEditDialog
    \/ CloseEditDialog
    \/ \E c \in Calls, prompts \in PromptEdits : ClickResummarize(c, prompts)
    \/ ProgressInterval
    \/ \E c \in Calls : ResummarizeResolved(c)
    \/ \E c \in Calls : ResummarizeShown(c)
    \/ \E c \in Calls : ResummarizeFailed(c)
    \/ \E c \in Calls : ResummarizeAborted(c)
    \/ HandleCancelResummarize
    \/ CloseProcessDialog

SpecDash == InitCache /\ [][NextDash]_vars

----------------------------------------------------------------------------
(* AdminSettings: handlers and effects *)

\* The effect on selectedCategory: nothing for the empty selection, else
\* isLoading and a getPrompt call.
WithPromptEffect(a, before) ==
    IF a.selectedCategory = before \/ a.selectedCategory = ""
    THEN a
    ELSE [a EXCEPT !.isLoading = TRUE,
                   !.promptLoads = Append(@, a.selectedCategory)]

\* getCategories resolves.
CategoriesLoaded(data) ==
    /\ admin.categoriesLoad = "pending"
    /\ admin' = WithPromptEffect(
                    [admin EXCEPT
                        !.categoriesLoad = "done",
                        !.categories = data,
                        !.selectedCategory = IF Len(data) > 0 THEN data[1] ELSE @],
                    admin.selectedCategory)
    /\ UNCHANGED <<server, panel, chat, job, indexPage, timeUtils, dash>>

\* getCategories rejects.
CategoriesFailed ==
    /\ admin.categoriesLoad = "pending"
    /\ admin' = [admin EXCEPT !.categoriesLoad = "failed", !.toast = "error"]
    /\ UNCHANGED <<server, panel, chat, job, indexPage, timeUtils, dash>>

\* The category select.
SelectCategory(k) ==
    /\ k \in 1..Len(admin.categories)
    /\ admin.categories[k] # admin.selectedCategory
    /\ Len(admin.promptLoads) < MaxPromptLoads
    /\ admin' = WithPromptEffect(
                    [admin EXCEPT !.selectedCategory = admin.categories[k]],
                    admin.selectedCategory)
    /\ UNCHANGED <<server, panel, chat, job, indexPage, timeUtils, dash>>

RemoveAt(seq, k) == SubSeq(seq, 1, k - 1) \o SubSeq(seq, k + 1, Len(seq))

\* A getPrompt call settles: then / catch, and finally.
PromptLoaded(k, ok) ==
    /\ k \in 1..Len(admin.promptLoads)
    /\ admin' = [admin EXCEPT
            !.currentTemplate = IF ok THEN admin.promptLoads[k] ELSE @,
            !.toast = IF ok THEN @ ELSE "error",
            !.isLoading = FALSE,
            !.promptLoads = RemoveAt(@, k)]
    /\ UNCHANGED <<server, panel, chat, job, indexPage, timeUtils, dash>>

\* handleProviderChange, from the provider select.
HandleProviderChange(newProvider) ==
    /\ newProvider # admin.aiProvider
    /\ LET defaultModel == IF newProvider = "gemini" THEN "gemini-2.0-flash-exp"
                                                     ELSE "gpt-4o-mini"
       IN  admin' = [admin EXCEPT
               !.aiProvider = newProvider,
               !.aiModel = defaultModel,
               !.localStorage = [@ EXCEPT !.ai_provider = newProvider,
                                          !.ai_model = defaultModel],
               !.toast = "success"]
    /\ UNCHANGED <<server, panel, chat, job, indexPage, timeUtils, dash>>

\* handleModelChange, from the model select, which offers getModelOptions().
HandleModelChange(newModel) ==
    /\ newModel \in GetModelOptions(admin.aiProvider)
    /\ newModel # admin.aiModel
    /\ admin' = [admin EXCEPT
            !.aiModel = newModel,
            !.localStorage = [@ EXCEPT !.ai_model = newModel],
            !.toast = "success"]
    /\ UNCHANGED <<server, panel, chat, job, indexPage, timeUtils, dash>>

\* The user leaves the page and comes back: the component mounts again over
\* the same localStorage.
RemountAdmin ==
    /\ admin.categoriesLoad # "pending"
    /\ admin.promptLoads = <<>>
    /\ admin' = MountAdmin(admin.localStorage)
    /\ UNCHANGED <<server, panel, chat, job, indexPage, timeUtils, dash>>

AllModels == UNION {GetModelOptions(p) : p \in ProviderItems}

NextAdmin ==
    \/ \E data \in CategoryLists : CategoriesLoaded(data)
    \/ CategoriesFailed
    \/ \E k \in 1..2 : SelectCategory(k)
    \/ \E k \in 1..MaxPromptLoads, ok \in BOOLEAN : PromptLoaded(k, ok)
    \/ \E newProvider \in ProviderItems : HandleProviderChange(newProvider)
    \/ \E newModel \in AllModels : HandleModelChange(newModel)
    \/ RemountAdmin

SpecAdmin == InitCache /\ [][NextAdmin]_vars

----------------------------------------------------------------------------
(* C1: a read never returns an expired transcript.  A get of id at time t
   returns the text of the last put for id exactly when such a put exists
   and t <= (time of that put) + TTL; in every other case it returns Absent,
   whether or not a sweep ran after the entry expired. *)
C1_GetNeverReturnsExpired ==
    got # NoGet =>
        IF HasPut(got.id) /\ got.at <= LastPut(got.id).at + TTL
        THEN got.result = LastPut(got.id).text
        ELSE got.result = Absent

\* An expired entry is still stored (no sweep removed it) and the read hides it.
C1_Witness ==
    /\ got # NoGet
    /\ HasPut(got.id)
    /\ got.at > LastPut(got.id).at + TTL
    /\ cache[got.id] # NoEntry
    /\ got.result = Absent

(* C2 as stated: a get right after the put returns the text, and a get once the
   time elapsed since the put is >= TTL (exactly TTL included) returns Absent. *)
C2_Original ==
    (got # NoGet /\ HasPut(got.id)) =>
        /\ (got.at = LastPut(got.id).at => got.result = LastPut(got.id).text)
        /\ (got.at - LastPut(got.id).at >= TTL => got.result = Absent)

(* C2 amended: a get right after the put returns the text; a get once the time
   elapsed since the put is strictly greater than TTL returns Absent; at exactly
   TTL (now = expiresAt) the text is still returned. *)
C2_CacheTTL ==
    (got # NoGet /\ HasPut(got.id)) =>
        /\ (got.at = LastPut(got.id).at => got.result = LastPut(got.id).text)
        /\ (got.at - LastPut(got.id).at > TTL => got.result = Absent)
        /\ (got.at - LastPut(got.id).at = TTL => got.result = LastPut(got.id).text)

\* A read exactly TTL after the put, which still returns the text.
C2_Witness ==
    /\ got # NoGet
    /\ HasPut(got.id)
    /\ got.at - LastPut(got.id).at = TTL
    /\ got.result = LastPut(got.id).text

(* C3: last put wins.  After two or more puts for id, every get of id at a time
   t with t2 <= t <= t2 + TTL (t2 the time of the last put) returns the text of
   the last put, also when t is past the expiry stamped by the earlier put. *)
C3_LastPutWins ==
    (got # NoGet /\ Len(puts[got.id]) >= 2
        /\ got.at <= LastPut(got.id).at + TTL) =>
            got.result = LastPut(got.id).text

\* X then Y were put, the read is past X's expiry and returns Y.
C3_Witness ==
    /\ got # NoGet
    /\ Len(puts[got.id]) >= 2
    /\ PrevPut(got.id).text = "X"
    /\ LastPut(got.id).text = "Y"
    /\ got.at > PrevPut(got.id).at + TTL
    /\ got.result = "Y"

----------------------------------------------------------------------------
(* Claims about the endpoints, checked under SpecServer *)

DualKinds == {"summarize", "resummarize"}
ReadKinds == {"resummarize", "chat", "translateOne", "translateBatch"}
CachedKinds == {"chat", "translateOne", "translateBatch"}

NotFound(q) ==
    /\ q.pc = "done"
    /\ q.outcome.status = "error"
    /\ q.outcome.message = MessageOf("transcript_not_found")
    /\ q.outcome.data = NoVal
    /\ q.calls = 0
    /\ q.transcript = Absent

(* C4: no torn read under concurrency.  Whatever requests are in flight on the
   same contentId, the entry a request read from the cache is exactly what one
   put issued for that contentId wrote: that put's text together with that same
   put's createdAt and expiresAt; a read that found nothing used no text. *)
C4_NoTornRead ==
    \A r \in Reqs :
        LET q == reqs[r]
        IN  /\ q.seen # NoEntry =>
                /\ \E i \in 1..Len(puts[q.id]) :
                        /\ puts[q.id][i].text = q.seen.rawText
                        /\ puts[q.id][i].at = q.seen.createdAt
                        /\ puts[q.id][i].at + TTL = q.seen.expiresAt
                /\ q.transcript = q.seen.rawText
            /\ (q.kind \in ReadKinds /\ ~q.fromReq /\ q.seen = NoEntry) =>
                    q.transcript = Absent

\* A reader still working from the entry it read while a concurrent summarize
\* has overwritten that entry.
C4_Witness ==
    \E r1, r2 \in Reqs :
        /\ r1 # r2
        /\ reqs[r1].seen # NoEntry
        /\ reqs[r1].pc \in {"overview", "detail", "generating"}
        /\ reqs[r2].kind = "summarize"
        /\ reqs[r2].pc \in {"overview", "detail"}
        /\ reqs[r2].id = reqs[r1].id
        /\ cache[reqs[r1].id] # NoEntry
        /\ cache[reqs[r1].id] # reqs[r1].seen

(* C5 as stated: a resummarize on a contentId with no stored, unexpired
   transcript always fails with transcript-not-found. *)
C5_Original ==
    \A r \in Reqs :
        (reqs[r].kind = "resummarize" /\ ~reqs[r].live) => NotFound(reqs[r])

(* C5 amended: a resummarize whose request carries no transcript of its own, on
   a contentId with no stored, unexpired transcript, fails with
   transcript-not-found: no gateway call, no result, no empty transcript. *)
C5_ResummarizeWithoutTranscript ==
    \A r \in Reqs :
        (reqs[r].kind = "resummarize" /\ ~reqs[r].fromReq /\ ~reqs[r].live) =>
            NotFound(reqs[r])

\* The expired case: the entry is still stored, the resummarize was refused.
C5_Witness ==
    \E r \in Reqs :
        /\ reqs[r].kind = "resummarize"
        /\ ~reqs[r].fromReq
        /\ ~reqs[r].live
        /\ cache[reqs[r].id] # NoEntry
        /\ NotFound(reqs[r])

(* C6: a cache miss on chat, translate-one or translate-batch ends the call with
   transcript-not-found: no gateway call is made for it and no reply or
   translation is returned. *)
C6_CacheMissOnChatOrTranslate ==
    \A r \in Reqs :
        (reqs[r].kind \in CachedKinds /\ ~reqs[r].live) => NotFound(reqs[r])

\* A chat and a translate request, both refused on a miss.
C6_Witness ==
    \E r1, r2 \in Reqs :
        /\ reqs[r1].kind = "chat" /\ ~reqs[r1].live /\ NotFound(reqs[r1])
        /\ reqs[r2].kind \in {"translateOne", "translateBatch"}
        /\ ~reqs[r2].live /\ NotFound(reqs[r2])

SummarizePutStep(r, id) ==
    /\ reqs[r].kind = "summarize" /\ reqs[r].id = id
    /\ reqs[r].pc = "extracting" /\ reqs'[r].pc = "overview"

ReaderStep(r) ==
    /\ reqs'[r] # reqs[r]
    /\ (reqs[r].kind \in ReadKinds \/ reqs'[r].kind \in ReadKinds)

StampedByLastSummarize(id) ==
    cache[id] # NoEntry =>
        /\ HasPut(id)
        /\ cache[id] = [rawText |-> LastPut(id).text,
                        createdAt |-> LastPut(id).at,
                        expiresAt |-> LastPut(id).at + TTL]

(* C7: summarize is the only write path into the cache.  Every step of a
   resummarize, chat, translate-one or translate-batch request (its cache get
   included) leaves the whole cache unchanged; an entry appears or changes only
   in the step where a summarize stores its extracted transcript; and so every
   stored entry carries the text and stamps of the last summarize for its id. *)
C7_SummarizeOnlyWritePath ==
    [][ /\ \A r \in Reqs : ReaderStep(r) => cache' = cache
        /\ \A id \in ContentIds :
              /\ (cache'[id] # cache[id] /\ cache'[id] # NoEntry) =>
                    \E r \in Reqs : SummarizePutStep(r, id)
              /\ StampedByLastSummarize(id)'
      ]_vars

\* A reader finished successfully and the entry is still the last summarize's.
C7_Witness ==
    \E r \in Reqs :
        /\ reqs[r].kind \in ReadKinds
        /\ reqs[r].pc = "done"
        /\ reqs[r].outcome.status = "ok"
        /\ reqs[r].seen # NoEntry
        /\ cache[reqs[r].id] = reqs[r].seen
        /\ StampedByLastSummarize(reqs[r].id)

(* C8: in the overview/detail flow, when exactly one of the two gateway calls of
   a request succeeded, the outcome handed to the caller holds that call's
   generated text together with the other call's error. *)
C8_PartialResultsReported ==
    \A r \in Reqs :
        LET q == reqs[r]
        IN  (q.kind \in DualKinds /\ q.pc = "done") =>
                /\ (q.ov = "ok" /\ q.dt = "failed") =>
                        /\ q.outcome.status = "ok"
                        /\ q.outcome.data.summary_overview =
                                Generated("overview", q.transcript)
                        /\ q.outcome.data.summary_detail =
                                Failure("generation_failed")
                /\ (q.ov = "failed" /\ q.dt = "ok") =>
                        /\ q.outcome.status = "ok"
                        /\ q.outcome.data.summary_overview =
                                Failure("generation_failed")
                        /\ q.outcome.data.summary_detail =
                                Generated("detail", q.transcript)

\* Both mixed outcomes have been reported, one per request.
C8_Witness ==
    \E r1, r2 \in Reqs :
        /\ reqs[r1].pc = "done" /\ reqs[r1].ov = "ok" /\ reqs[r1].dt = "failed"
        /\ reqs[r2].pc = "done" /\ reqs[r2].ov = "failed" /\ reqs[r2].dt = "ok"

(* C9: within one summarize or resummarize request nothing is returned while a
   gateway call is in flight, and once the calls were started an outcome is
   returned only after both the overview and the detail call completed (each
   succeeded or failed). *)
C9_JoinBeforeReturn ==
    \A r \in Reqs :
        LET q == reqs[r]
        IN  q.kind \in DualKinds =>
                /\ (q.ov = "inflight" \/ q.dt = "inflight") =>
                        q.outcome = NoOutcome
                /\ (q.outcome # NoOutcome /\ q.calls > 0) =>
                        /\ q.ov \in {"ok", "failed"}
                        /\ q.dt \in {"ok", "failed"}
                        /\ q.calls = 2

\* One request answered after both calls completed while another request still
\* has its detail call in flight and no outcome.
C9_Witness ==
    \E r1, r2 \in Reqs :
        /\ reqs[r1].kind \in DualKinds /\ reqs[r1].outcome.status = "ok"
        /\ reqs[r1].ov = "ok" /\ reqs[r1].dt = "ok"
        /\ reqs[r2].kind \in DualKinds /\ reqs[r2].dt = "inflight"
        /\ reqs[r2].outcome = NoOutcome

----------------------------------------------------------------------------
(* Claims about batch translation, checked under SpecPanel *)

BatchAnswered == panel.isTranslatingFull /\ ~panel'.isTranslatingFull

FullTranslation(n) == [i \in 0..(n - 1) |-> TranslationOf(i + 1)]

(* C10: a batch translation of the panel's N lines that succeeds delivers
   exactly N translations, and the panel holds translation i for line i for
   every line; when the number of entries that came back differs from N the
   call fails with translation-shape-mismatch and nothing of it is accepted:
   the panel's translations and its visibility switch stay as they were. *)
C10_BatchShape ==
    [][ BatchAnswered =>
          LET b == panel'.batches[Len(panel'.batches)]
              n == panel.lines
          IN  /\ b.outcome.status = "ok" =>
                    /\ b.fate = "returned" /\ b.produced = n
                    /\ Len(b.outcome.data.translations) = n
                    /\ panel'.segmentTranslations = FullTranslation(n)
              /\ (b.fate = "returned" /\ b.produced # n) =>
                    /\ b.outcome.status = "error"
                    /\ b.outcome.message = MessageOf("translation_shape_mismatch")
                    /\ panel'.segmentTranslations = panel.segmentTranslations
                    /\ panel'.showTranslation = panel.showTranslation
      ]_vars

\* A short batch was refused, then a batch of the right length was accepted.
C10_Witness ==
    /\ panel.lines >= 2
    /\ Len(panel.batches) = 2
    /\ panel.batches[1].fate = "returned"
    /\ panel.batches[1].produced = panel.lines - 1
    /\ panel.batches[1].outcome.status = "error"
    /\ panel.batches[2].fate = "returned"
    /\ panel.batches[2].outcome.status = "ok"
    /\ panel.segmentTranslations = FullTranslation(panel.lines)
    /\ panel.showTranslation

----------------------------------------------------------------------------
(* Claims about the chat panel, checked under SpecChat *)

CompleteEntry(e) ==
    /\ DOMAIN e = {"rawText", "createdAt", "expiresAt"}
    /\ e.rawText \in Texts
    /\ e.expiresAt = e.createdAt + TTL

NoDanglingUserTurn(h) ==
    \A i \in 1..Len(h) :
        h[i].role = "user" => (i < Len(h) /\ h[i + 1].role = "assistant")

(* C11 as stated: once an in-flight request has been cancelled (and nothing
   else is in flight), the cache holds only complete entries and the
   conversation history holds no user turn without its assistant reply. *)
C11_Original ==
    (chat.last # NoVal /\ chat.last.how = "aborted" /\ ~chat.isLoading) =>
        /\ \A id \in ContentIds : cache[id] # NoEntry => CompleteEntry(cache[id])
        /\ NoDanglingUserTurn(chat.conversationHistory)

----------------------------------------------------------------------------
(* Claims about prompt composition and the summarize run, checked under
   SpecJob *)

Composed == job.pc \in {"generating", "done"} /\ job.prompts # NoVal

(* C12: template selection is binary with a default.  Whatever formatKind the
   request carried (absent, empty and unknown values included), the detail
   prompt is built on the presentation template exactly when the formatKind is
   "presentation" and on the dialogue template otherwise; the overview prompt
   is built on the one overview template and is the same prompt for every
   formatKind. *)
C12_TemplateSelection ==
    Composed =>
        LET given == job.body.format_type
        IN  /\ Contains(job.prompts.detail, "presentation-requirements")
                  <=> (given = "presentation")
            /\ Contains(job.prompts.detail, "dialogue-requirements")
                  <=> (given # "presentation")
            /\ ~Contains(job.prompts.detail, "overview-objective")
            /\ Contains(job.prompts.overview, "overview-objective")
            /\ \A f \in FormatArgs :
                  CreatePrompt(job.category, f, job.transcript, "overview")
                      = job.prompts.overview

\* A run whose request named an unknown formatKind got the dialogue template.
C12_Witness ==
    /\ Composed
    /\ job.body.format_type = "panel"
    /\ Contains(job.prompts.detail, "dialogue-requirements")

RECURSIVE Count(_, _)
Count(text, token) ==
    IF text = <<>> THEN 0
    ELSE (IF Head(text) = token THEN 1 ELSE 0) + Count(Tail(text), token)

Placeholders == {"{role}", "{transcript}"}

(* C13 as stated: whatever the transcript contains, neither composed prompt
   contains the token "{role}" or "{transcript}". *)
C13_Original ==
    Composed =>
        \A k \in Placeholders :
            /\ ~Contains(job.prompts.overview, k)
            /\ ~Contains(job.prompts.detail, k)

(* C13 amended: every replacement field of the template is substituted, and
   the values are copied in as they are: a composed prompt contains "{role}" or
   "{transcript}" exactly as often as the role text and the transcript
   themselves do, so none at all when neither of them contains it. *)
C13_PlaceholdersResolved ==
    Composed =>
        \A k \in Placeholders :
            LET carried == Count(RoleFor(job.category), k) + Count(job.transcript, k)
            IN  /\ Count(job.prompts.overview, k) = carried
                /\ Count(job.prompts.detail, k) = carried

\* A transcript that itself says "{role}" went through composition.
C13_Witness ==
    /\ Composed
    /\ Contains(job.transcript, "{role}")
    /\ Count(job.prompts.detail, "{role}") = 1
    /\ Count(job.prompts.detail, "{transcript}") = 0

\* The role text found in a composed prompt: what follows its [ROLE] header.
RoleIn(prompt) == <<prompt[2]>>

(* C14: the role lookup never fails.  For the topicKey a request carried, the
   role in both composed prompts is that topic's registered role text when the
   topic is registered, and the role of "general" when the topicKey is unknown
   or absent. *)
C14_RoleFallback ==
    Composed =>
        LET k == job.body.category
            expected == IF k \in DOMAIN Roles THEN Roles[k] ELSE Roles["general"]
        IN  /\ RoleFor(k) = expected
            /\ RoleIn(job.prompts.overview) = expected
            /\ RoleIn(job.prompts.detail) = expected

\* A run with an unregistered topic was composed with the general role.
C14_Witness ==
    /\ Composed
    /\ job.body.category = "cooking"
    /\ RoleIn(job.prompts.detail) = Roles["general"]

(* C15 as stated: a run whose caller supplied neither topicKey nor formatKind
   uses exactly the prompts of topicKey = general, formatKind = dialogue on the
   same transcript, whichever layer filled the defaults in. *)
C15_Original ==
    (Composed /\ job.supplied.topicKey = Absent /\ job.supplied.formatKind = Absent) =>
        /\ job.prompts.overview =
              CreatePrompt("general", "dialogue", job.transcript, "overview")
        /\ job.prompts.detail =
              CreatePrompt("general", "dialogue", job.transcript, "detail")

Summarized == job.pc = "done" /\ job.result.status = "ok"

ScriptSection(transcript) == <<"==========", "[TARGET SCRIPT]">> \o transcript

(* C16 as stated: the prompts a result reports are verbatim the two prompts
   that were sent to the gateway, transcript section included. *)
C16_Original ==
    Summarized =>
        /\ job.result.data.prompts_used.overview = job.prompts.overview
        /\ job.result.data.prompts_used.detail = job.prompts.detail

(* C16 amended: the prompts a summarize result reports are the two prompts
   that were sent to the gateway without their script section: each reported
   prompt, followed by the separator, the [TARGET SCRIPT] header and the
   transcript, is the prompt that was sent. *)
C16_PromptsWithoutScript ==
    Summarized =>
        /\ job.result.data.prompts_used.overview \o ScriptSection(job.transcript)
              = job.prompts.overview
        /\ job.result.data.prompts_used.detail \o ScriptSection(job.transcript)
              = job.prompts.detail

\* A result whose reported detail prompt is shorter than the one sent.
C16_Witness ==
    /\ Summarized
    /\ job.transcript = <<"hello", "world">>
    /\ Len(job.result.data.prompts_used.detail) + 4 = Len(job.prompts.detail)
    /\ ~Contains(job.result.data.prompts_used.detail, "[TARGET SCRIPT]")

----------------------------------------------------------------------------
(* Claims about the sweep, checked under SpecCache *)

\* The cache that the puts issued so far build when no sweep ever runs.
RECURSIVE Replay(_, _)
Replay(id, k) ==
    IF k = 0 THEN EmptyCache
    ELSE CachePut(Replay(id, k - 1), id, puts[id][k].text, puts[id][k].at)

NoSweepCache == [id \in ContentIds |-> Replay(id, Len(puts[id]))[id]]

(* C17: sweep is observationally a no-op.  After every step, a get of any id
   returns from the swept cache what it returns from the cache built by the same
   puts with no sweep at all; and a step that removes an entry removes only one
   with now > expiresAt, which get no longer returned. *)
C17_SweepIsNoOp ==
    [][ /\ \A id \in ContentIds :
              CacheGet(cache', id, now') = CacheGet(NoSweepCache', id, now')
        /\ \A id \in ContentIds :
              (cache[id] # NoEntry /\ cache'[id] = NoEntry) =>
                  /\ now > cache[id].expiresAt
                  /\ CacheGet(cache, id, now) = Absent
        /\ got' # NoGet => got'.result = CacheGet(NoSweepCache, got'.id, now)
      ]_vars

\* A sweep removed the expired entry of one id and kept the live entry of the
\* other; the get that followed read the removed one as absent.
C17_Witness ==
    \E id1, id2 \in ContentIds :
        /\ HasPut(id1) /\ cache[id1] = NoEntry
        /\ cache[id2] # NoEntry /\ now <= cache[id2].expiresAt
        /\ got # NoGet /\ got.id = id1 /\ got.result = Absent

----------------------------------------------------------------------------
(* Claims about provider selection, checked under SpecJob *)

Accepted == job.pc \in {"extracting", "generating", "done"}

(* C18: a request that names a provider id outside the supported ones is
   rejected with provider-config-error before any network call: it ends with
   that error, no transcript extraction and no gateway call was issued for it,
   and no backend was selected for it. *)
C18_UnknownProviderRejected ==
    (Accepted /\ job.body.ai_provider \notin SupportedProviders) =>
        /\ job.pc = "done"
        /\ job.result.status = "error"
        /\ job.result.message = MessageOf("provider_config_error")
        /\ job.extractionCalls = 0
        /\ job.gatewayCalls = 0
        /\ job.backend = Absent
        /\ job.prompts = NoVal

\* A request naming an unsupported provider has been answered.
C18_Witness ==
    /\ job.pc = "done"
    /\ job.body.ai_provider = "llama"
    /\ job.result.status = "error"
    /\ job.extractionCalls = 0

----------------------------------------------------------------------------
(* Claims about chat, checked under SpecChat *)

ChatAnswered ==
    /\ chat.isLoading /\ ~chat'.isLoading
    /\ chat'.last.how = "answered"

(* C19: answering a question is stateless on the server.  The step in which the
   chat endpoint answers leaves the cache, the clock and every other piece of
   server state unchanged; when the transcript is cached it makes exactly one
   gateway call for the question; and a reply is generated from the cached
   transcript, the question and exactly the conversation history the request
   carried, which is the history the caller held when asking. *)
C19_ChatStateless ==
    [][ ChatAnswered =>
          LET d == chat'.last
              cached == CacheGet(cache, VideoId, now)
          IN  /\ UNCHANGED server
              /\ d.call = chat.call
              /\ cached # Absent =>
                    /\ d.calls = 1
                    /\ chat'.gatewayCalls = chat.gatewayCalls + 1
              /\ cached = Absent => d.calls = 0 /\ d.outcome.status = "error"
              /\ d.outcome.status = "ok" =>
                    /\ cached # Absent
                    /\ d.outcome.data.reply =
                          ReplyTo(cached, d.call.conversation_history, d.call.message)
                    /\ chat.conversationHistory =
                          Append(d.call.conversation_history,
                                 Turn("user", d.call.message))
      ]_vars

\* A follow-up question was answered from the history of the first exchange.
C19_Witness ==
    /\ chat.last # NoVal
    /\ chat.last.how = "answered"
    /\ chat.last.outcome.status = "ok"
    /\ Len(chat.last.call.conversation_history) = 2
    /\ chat.last.calls = 1
    /\ chat.gatewayCalls = 2
    /\ Len(chat.conversationHistory) = 4

----------------------------------------------------------------------------
(* Claims about the Index page, checked under SpecIndex *)

(* C20 as stated: in the Index flow the progress value stays within 0..100 at
   every step, the final updateStep('complete', 100) included. *)
C20_Original ==
    /\ indexPage.processState.progress >= 0
    /\ indexPage.processState.progress <= 100 * Scale

----------------------------------------------------------------------------
(* Claims about single-segment translation, checked under SpecPanel *)

SegIndexes(p) == 0..(p.lines - 1)

(* C21: no duplicate calls for a segment.  At any moment at most one
   translateSegment request per segment index is in flight, and a step issues
   a request for an index only when none is in flight for it and no
   translation is stored for it. *)
C21_NoDuplicateSegmentCalls ==
    /\ [](\A i \in SegIndexes(panel) : panel.segCalls[i] <= 1)
    /\ [][\A i \in SegIndexes(panel) :
            panel'.segCalls[i] > panel.segCalls[i]
                => /\ panel.segCalls[i] = 0
                   /\ i \notin DOMAIN panel.segmentTranslations]_vars

\* One segment's request is in flight while another segment's translation,
\* obtained by an earlier request, is stored.
C21_Witness ==
    \E i, j \in SegIndexes(panel) :
        /\ i # j
        /\ panel.segCalls[i] = 1
        /\ j \in DOMAIN panel.segmentTranslations
        /\ Len(panel.batches) = 0

----------------------------------------------------------------------------
(* Claims about timeUtils, checked under SpecTime *)

IsDigits(s) == \A k \in 1..Len(s) : s[k] \in {DigitChars[d] : d \in 1..10}

\* Strings of the form digits, colon, two digits.
Shaped(s) ==
    /\ Len(s) >= 4
    /\ IsDigits(SubSeq(s, 1, Len(s) - 3))
    /\ s[Len(s) - 2] = ":"
    /\ IsDigits(SubSeq(s, Len(s) - 1, Len(s)))

\* Strings of the form m:ss with ss below 60 and m a decimal numeral without
\* leading zero.
Canonical(s) ==
    /\ Shaped(s)
    /\ Len(s) > 4 => s[1] # "0"
    /\ s[Len(s) - 1] \in {"0", "1", "2", "3", "4", "5"}

(* C22: the two conversions are inverse on whole seconds.  A number of seconds
   turned into a timestamp and back is the same number; a timestamp m:ss with
   ss below 60 and no leading zero in m turned into seconds and back is the
   same string; and a string that is not digits, colon, two digits gives 0. *)
C22_Inverse ==
    /\ timeUtils.op = "secondsToTimestamp-back"
            => timeUtils.back = timeUtils.seconds
    /\ (timeUtils.op = "timestampToSeconds-back" /\ Canonical(timeUtils.timestamp))
            => timeUtils.back = timeUtils.timestamp
    /\ (timeUtils.op = "timestampToSeconds" /\ ~Shaped(timeUtils.timestamp))
            => timeUtils.seconds = 0

\* A two-digit-minute timestamp whose seconds need padding went round.
C22_Witness ==
    /\ timeUtils.op = "timestampToSeconds-back"
    /\ timeUtils.timestamp = <<"1", "0", ":", "0", "5">>
    /\ timeUtils.seconds = 605
    /\ timeUtils.back = timeUtils.timestamp

----------------------------------------------------------------------------
(* Claims about the chat panel's requests, checked under SpecChat *)

PairsOnly(h) ==
    /\ Len(h) % 2 = 0
    /\ \A i \in 1..Len(h) :
          h[i].role = IF i % 2 = 1 THEN "user" ELSE "assistant"

(* C23 as stated: the conversation_history sent with a request holds only
   complete user/assistant pairs: no user turn whose request failed, and not
   the message being asked. *)
C23_Original ==
    chat.call # NoVal => PairsOnly(chat.call.conversation_history)

(* C24: at most one chatWithVideo request is in flight at any time, and
   isLoading is true exactly while one is: from the step that issues it to the
   step in which it settles, whether it succeeded or failed. *)
C24_OneChatInFlight ==
    /\ chat.inFlight <= 1
    /\ chat.isLoading <=> chat.inFlight = 1

\* A second question is in flight after the first one failed.
C24_Witness ==
    /\ chat.inFlight = 1
    /\ chat.asked = 2
    /\ chat.last # NoVal
    /\ chat.last.outcome # NoOutcome
    /\ chat.last.outcome.status # "ok"

----------------------------------------------------------------------------
(* Claims about failure and cancellation on the Index page, checked under
   SpecIndex *)

\* Every call of handleSubmit made so far has ended.
AllSettled ==
    /\ indexPage.submits > 0
    /\ \A h \in Handlers : indexPage.handlers[h].pc = "idle"

(* C25 as stated: once the request has failed or been cancelled, its progress
   timer no longer changes processState: step, progress and error stay as
   they are until the user starts a new request. *)
C25_Original ==
    [][(AllSettled /\ ~indexPage.navigated
            /\ indexPage'.submits = indexPage.submits)
          => indexPage'.processState = indexPage.processState]_vars

\* The request of handler h has been cancelled through handleCancel.
Cancelled(h) == indexPage.handlers[h].aborted

(* C26: a request cancelled through handleCancel while the dialog shows a step
   in progress, the two waits before the fetch included, never reaches the
   completed step, from which alone the page navigates to the dashboard, and
   never records an error: the step that cancels it and the step in which it
   ends both leave isLoading and showProcessDialog false, and the step in
   which it ends leaves processState as it was. *)
C26_CancelIsQuiet ==
    [][\A h \in Handlers :
          /\ (~Cancelled(h) /\ indexPage'.handlers[h].aborted)
                => /\ indexPage.handlers[h].pc \in {"validating", "verifying", "calling"}
                   /\ ~indexPage'.isLoading
                   /\ ~indexPage'.showProcessDialog
          /\ Cancelled(h)
                => /\ indexPage'.handlers[h].pc # "closing"
                   /\ (indexPage'.handlers[h].pc = "idle" /\ ~indexPage'.navigated)
                        => /\ ~indexPage'.isLoading
                           /\ ~indexPage'.showProcessDialog
                           /\ indexPage'.processState = indexPage.processState]_vars

\* A request cancelled while the dialog showed the extracting step has ended
\* in its catch block.
C26_Witness ==
    /\ indexPage.submits = 1
    /\ AllSettled
    /\ indexPage.processState.currentStep = "extracting"
    /\ indexPage.toast = "info"
    /\ ~indexPage.isLoading /\ ~indexPage.showProcessDialog

----------------------------------------------------------------------------
(* Claims about re-summarize, checked under SpecDash *)

\* Call c settles in this step.
Settles(c) == dash.calls[c].pc = "waiting" /\ dash'.calls[c].pc # "waiting"

(* C27: a re-summarize that fails or is aborted by the user leaves videoData
   as it was; videoData changes only in the step in which a re-summarize that
   was not aborted resolves, and then to that call's response; and
   isResummarizing is false after every step in which a call settles. *)
C27_ResummarizeFrame ==
    [][/\ \A c \in Calls :
            Settles(c) =>
                /\ ~dash'.isResummarizing
                /\ IF dash'.calls[c].pc = "closing"
                   THEN /\ ~dash.calls[c].aborted
                        /\ dash'.videoData = Resummarized(dash.calls[c].prompts)
                   ELSE dash'.videoData = dash.videoData
       /\ dash'.videoData # dash.videoData
            => \E c \in Calls : Settles(c) /\ dash'.calls[c].pc = "closing"]_vars

\* videoData is the response of an earlier re-summarize, and a later one, with
\* other prompts, has just been aborted by the user.
C27_Witness ==
    /\ dash.videoData = Resummarized("edit1")
    /\ dash.settled # NoVal
    /\ dash.settled.how = "aborted"
    /\ dash.settled.prompts = "edit2"
    /\ ~dash.isResummarizing

----------------------------------------------------------------------------
(* Claims about the panel's busy markers, checked under SpecPanelFair *)

PanelBusy == panel.translatingSegments # {} \/ panel.isTranslatingFull

SettlingClearsMarker ==
    /\ \A i \in SegIndexes(panel) :
          (panel'.segCalls[i] < panel.segCalls[i] /\ panel'.segCalls[i] = 0)
              => i \notin panel'.translatingSegments
    /\ (panel'.fullCalls < panel.fullCalls /\ panel'.fullCalls = 0)
              => ~panel'.isTranslatingFull

(* C28: every translation request that settles clears its busy marker,
   whether it succeeded or failed: the step in which the last request for a
   segment settles leaves its index out of translatingSegments, the step in
   which a batch request settles leaves isTranslatingFull false; so, every
   request settling eventually, whenever a marker is set there comes a moment
   when translatingSegments is empty and isTranslatingFull is false. *)
C28_BusyMarkersCleared ==
    /\ [][SettlingClearsMarker]_vars
    /\ PanelBusy ~> ~PanelBusy

\* Both kinds of request have failed and both markers are clear again.
C28_Witness ==
    /\ ~PanelBusy
    /\ panel.segClicks > 0
    /\ panel.toast = "error"
    /\ Len(panel.batches) > 0
    /\ panel.batches[Len(panel.batches)].outcome.status # "ok"
    /\ DOMAIN panel.segmentTranslations = {}

----------------------------------------------------------------------------
(* Claims about the full-translate action, checked under SpecPanel *)

SomeCallSettles ==
    \/ panel'.fullCalls < panel.fullCalls
    \/ \E i \in SegIndexes(panel) : panel'.segCalls[i] < panel.segCalls[i]

(* C29: a translateBatch request is issued only when no segment translation
   is stored.  With at least one stored, a full-translate click only toggles
   showTranslation: the stored translations change only in a step in which a
   request settles, never in a click. *)
C29_BatchOnlyFromEmpty ==
    [][/\ panel'.fullCalls > panel.fullCalls
            => MapSize(panel.segmentTranslations) = 0
       /\ panel'.segmentTranslations # panel.segmentTranslations
            => SomeCallSettles
       /\ (MapSize(panel.segmentTranslations) > 0
                /\ panel'.showTranslation # panel.showTranslation
                /\ ~SomeCallSettles)
            => /\ panel'.segmentTranslations = panel.segmentTranslations
               /\ panel'.fullCalls = panel.fullCalls]_vars

\* One of two lines is translated, no batch was ever requested, and a
\* full-translate click has switched the translations on.
C29_Witness ==
    /\ panel.lines = 2
    /\ MapSize(panel.segmentTranslations) = 1
    /\ panel.showTranslation
    /\ panel.fullCalls = 0
    /\ Len(panel.batches) = 0

----------------------------------------------------------------------------
(* Claims about AdminSettings, checked under SpecAdmin *)

(* C30: starting from the default settings, after any sequence of provider
   and model changes the stored ai_model is one of the options offered for
   the stored ai_provider, and the pair in component state is the stored
   pair.  A key not written yet reads as its default. *)
C30_StoredPairConsistent ==
    /\ StoredModel(admin.localStorage)
            \in GetModelOptions(StoredProvider(admin.localStorage))
    /\ admin.aiProvider = StoredProvider(admin.localStorage)
    /\ admin.aiModel = StoredModel(admin.localStorage)

\* The provider was changed to gemini and then a model other than its default
\* was chosen.
C30_Witness ==
    /\ admin.localStorage.ai_provider = "gemini"
    /\ admin.localStorage.ai_model = "gemini-1.5-pro"
    /\ admin.aiModel = "gemini-1.5-pro"

============================================================================
